---- MODULE Spec2Model ----
(***************************************************************************)
(* ViceBank backend (src/backend/server.js): usage counters, consent rules, *)
(* week bounds, weekly aggregation and weekly settlement.                  *)
(*                                                                         *)
(* Conventions of the model                                                *)
(*  - instants are integer milliseconds since 1970-01-01T00:00:00Z;        *)
(*  - a YYYY-MM-DD string is the number of whole days since 1970-01-01     *)
(*    (toISOString().slice(0,10) of an instant t is dayKey(t));            *)
(*  - dollar rates are held in mills (1/1000 $), so 0.05 $ is 50;          *)
(*  - a JS Map is a function whose DOMAIN is the set of keys present;      *)
(*  - the server process runs with TZ=UTC, so Date#setHours, #getDay and   *)
(*    #setDate act on the UTC fields of the instant;                       *)
(*  - request fields that no modelled code reads back (ip, ua, tosHash,    *)
(*    extensionVersion, session startedAt/lastSeenAt) are left out.        *)
(***************************************************************************)
EXTENDS Integers, Sequences, FiniteSets, TLC

VARIABLES
    now,                   \* Date.now() of the server process
    stripe,                \* TRUE iff STRIPE_SECRET_KEY was set at boot (server.js:54-64)
    consents,              \* Map userId -> snapshot            (server.js:172)
    sessions,              \* Map sessionId -> {userId, tz}     (server.js:173)
    counters,              \* Map <<userId, day>> -> bucket     (server.js:174)
    weeklyRolloversCents,  \* Map userId -> cents               (server.js:175)
    pending,               \* settle calls suspended at `await stripe.paymentIntents.create`
    charges,               \* PaymentIntents the processor holds, one per idempotency key
    response,              \* the HTTP response last written by a handler; in a settle
                           \* response `call` is history: the locals of the call it
                           \* answers, and so is `retry` in a failure: the locals the
                           \* same request would have computed just before the failure
                           \* (`query` and `at` in the answer of a read are history
                           \* too: the query of the request and Date.now() at it)
    usedSeconds,           \* history: seconds addUsage was given, per <<userId, day, category>>
    carried,               \* history: per user, week -> cents put into the rollover by the
                           \* last below-minimum settle of that week since the last charge
    ext                    \* the browser extension: its chrome.storage, the `active`
                           \* snapshot of the service worker, the next vb_tick alarm,
                           \* the modal on the page, and history (seconds sent in
                           \* the current visit, the kind of the last counted tick,
                           \* the local day of the last Continue Paid per category)

vars == <<now, stripe, consents, sessions, counters, weeklyRolloversCents,
          pending, charges, response, usedSeconds, carried, ext>>

(***************************************************************************)
(* Program constants                                                       *)
(***************************************************************************)
STRIPE_MIN_CENTS == 50
FloorPornMills == 50
FloorGamblingMills == 500
DefaultRatePornMills == 50
DefaultRateGamblingMills == 500
DefaultGracePorn == 1
DefaultGraceGambling == 0
MsPerMinute == 60000
MsPerDay == 86400000

CATEGORY_FLOORS == [porn |-> FloorPornMills, gambling |-> FloorGamblingMills]

BuiltinCategories == {"porn", "gambling"}

PORN_SEEDS == {"porn", "xvideos", "xnxx", "xhamster", "redtube", "pornhub",
               "brazzers", "onlyfans"}
GAMBLING_SEEDS == {"stake", "rollbit", "bet365", "pokerstars", "draftkings",
                   "fanduel", "1xbet", "betway"}

(***************************************************************************)
(* Bounds of the model                                                     *)
(***************************************************************************)
MaxUsageMinutes == 11     \* whole minutes stored by all buckets, settlement specification
MaxInflight == 1          \* settle calls suspended at the processor at one time
MaxCharges == 2           \* PaymentIntents the processor is asked to hold
MaxTickMinutes == 3       \* whole minutes stored by all buckets, usage specification
MaxAggMinutes == 4        \* whole minutes stored by all buckets, aggregation specification
MaxWholeMinutes == 1      \* whole minutes stored by all buckets, whole-minute specification
MaxBillBatches == 2       \* tick batches of two minutes accepted, billing specification
MaxReadMinutes == 1       \* whole minutes stored by all buckets, read specification
MaxCallMinutes == 1        \* whole minutes stored by direct addUsage calls
MaxNegativeSeconds == 5    \* how far below zero a seconds counter is followed
MaxConsentBatches == 1     \* tick batches stored in the consent specification
MaxBatchMinutes == 2       \* whole minutes stored in the batch specification
MaxUnconfiguredMinutes == 3  \* whole minutes stored without a processor
MaxTwoUserMinutes == 2     \* whole minutes stored by two users together
MaxTwoUserRollover == 5    \* cents a user carries in the two-user specification
MaxCarryMinutes == 2       \* whole minutes stored in the interleaving specification
MaxOverlap == 2            \* settle calls waiting for the processor at once
MaxOverlapMinutes == 9     \* whole minutes stored in the overlapping-settle specification
MaxStreakMinutes == 3      \* whole minutes stored in the streak specification
MaxExtSeconds == 30        \* seconds of wall clock the extension specification covers
MaxZoneMinutes == 3        \* whole minutes stored in the time-zone specification
MaxTagMinutes == 2         \* whole minutes stored in the event-category specification
MaxDailyMinutes == 4       \* whole minutes stored in the per-day specification
MaxPairMinutes == 2        \* whole minutes stored in the two-extension specification
MaxHandlers == 2           \* alarm handlers of the extension under way at once
MaxAlarmPeriods == 3       \* alarm periods that pass in the overlapping-handlers specification

(***************************************************************************)
(* Small utilities                                                         *)
(***************************************************************************)
Max(a, b) == IF a >= b THEN a ELSE b

RECURSIVE SumOver(_, _)
SumOver(S, f) ==
    IF S = {} THEN 0
    ELSE LET x == CHOOSE y \in S : TRUE IN f[x] + SumOver(S \ {x}, f)

Undefined == [t |-> "undef"]
Num(n) == [t |-> "num", n |-> n]
Obj(f) == [t |-> "obj", v |-> f]

\* dayKey: new Date(ts).toISOString().slice(0, 10)
dayKey(ts) == ts \div MsPerDay

\* a key that leaves the user out
keyUserDayOfDayOnly(userId, ts) == <<"u1", dayKey(ts)>>

\* keyUserDay: `${userId}::${dayKey(ts)}`
keyUserDay(userId, ts) == <<userId, dayKey(ts)>>

\* new Date(dayStr + "T00:00:00Z").getTime()
DayStart(day) == day * MsPerDay

\* Date#getDay under TZ=UTC: 0 = Sunday .. 6 = Saturday (1970-01-01 was a Thursday)
GetDay(t) == (dayKey(t) + 4) % 7

\* Date#setHours(0, 0, 0, 0) under TZ=UTC
SetHoursMidnight(t) == dayKey(t) * MsPerDay

\* the first instant of the next day, in place of the last one of the day
SetHoursNextMidnight(t) == dayKey(t) * MsPerDay + MsPerDay

\* Date#setHours(23, 59, 59, 999) under TZ=UTC
SetHoursEndOfDay(t) == dayKey(t) * MsPerDay + (MsPerDay - 1)

\* Math.round(dollars * 100) for a non-negative rate held in mills
RoundCents(mills) == (mills + 5) \div 10

(***************************************************************************)
(* Categorization.  A host is its text cut into tokens: "." is a token,    *)
(* and so is every run of other characters, cut so that a seed inside a    *)
(* run is a token of its own ("notpornhub.com" is <<"not", "pornhub", ".", *)
(* "com">>).  "_" stands for a run with a character outside [a-z0-9.-],    *)
(* "PornHub" and "WWW" for runs with upper-case letters.                   *)
(***************************************************************************)
\* String#toLowerCase on one token
ToLowerCaseToken(t) ==
    IF t = "PornHub" THEN "pornhub" ELSE IF t = "WWW" THEN "www" ELSE t

\* host.toLowerCase()
ToLowerCase(host) == [i \in 1..Len(host) |-> ToLowerCaseToken(host[i])]

\* host.replace(/^www\./, "")
StripWww(host) ==
    IF Len(host) >= 2 /\ host[1] = "www" /\ host[2] = "."
    THEN SubSeq(host, 3, Len(host))
    ELSE host

\* the token is made of characters of the class [a-z0-9.-]
InClass(t) == t # "_"

\* the regex without its leading (?:^|\.): a seed anywhere in the text
RegexTestUnanchored(seeds, h) ==
    \E i \in 1..Len(h) :
        /\ h[i] \in seeds
        /\ i + 2 <= Len(h)
        /\ h[i + 1] = "."
        /\ \A j \in (i + 2)..Len(h) : InClass(h[j])

\* makeDomainRegex(seeds).test(h): (?:^|\.)(seed)\.[a-z0-9.-]+$
RegexTest(seeds, h) ==
    \E i \in 1..Len(h) :
        /\ (i = 1 \/ h[i - 1] = ".")
        /\ h[i] \in seeds
        /\ i + 2 <= Len(h)
        /\ h[i + 1] = "."
        /\ \A j \in (i + 2)..Len(h) : InClass(h[j])

categorizeDomain(host) ==
    IF host = <<>> THEN ""
    ELSE LET h == StripWww(ToLowerCase(host)) IN
         IF RegexTest(PORN_SEEDS, h) THEN "porn"
         ELSE IF RegexTest(GAMBLING_SEEDS, h) THEN "gambling"
         ELSE ""

(***************************************************************************)
(* Counters                                                                *)
(***************************************************************************)
NewBucket(ts) ==
    [updatedAt |-> ts,
     byCategory |-> [c \in BuiltinCategories |-> [minutes |-> 0, seconds |-> 0]],
     byDomain |-> << >>]

\* ensureCounterBucket: the counters Map after the call
ensureCounterBucket(cs, userId, ts) ==
    LET k == keyUserDay(userId, ts) IN
    IF k \in DOMAIN cs THEN cs ELSE cs @@ (k :> NewBucket(ts))

CarryOneMinute(cat, seconds) ==
    LET s == cat.seconds + seconds IN
    IF s >= 60
    THEN [minutes |-> cat.minutes + 1, seconds |-> s - 60]
    ELSE [minutes |-> cat.minutes, seconds |-> s]

CarryAboveSixty(cat, seconds) ==
    LET s == cat.seconds + seconds IN
    IF s > 60
    THEN [minutes |-> cat.minutes + (s \div 60), seconds |-> s % 60]
    ELSE [minutes |-> cat.minutes, seconds |-> s]

\* the seconds added with their carry left for a later turn: only what an
\* earlier call left over is carried
CarryLeftPending(cat, seconds) ==
    [minutes |-> cat.minutes + (cat.seconds \div 60),
     seconds |-> (cat.seconds % 60) + seconds]

\* the category entry after `cat.seconds += seconds` and the carry
CarrySeconds(cat, seconds) ==
    LET s == cat.seconds + seconds IN
    IF s >= 60
    THEN [minutes |-> cat.minutes + (s \div 60), seconds |-> s % 60]
    ELSE [minutes |-> cat.minutes, seconds |-> s]

\* addUsage: the counters Map after the call ("" and <<>> are the falsy
\* userId / category and domain, 0 the falsy seconds)
addUsage(cs, userId, domain, category, seconds, ts) ==
    IF userId = "" \/ domain = << >> \/ category = "" \/ seconds = 0 THEN cs
    ELSE
      LET cs1 == ensureCounterBucket(cs, userId, ts)
          k == keyUserDay(userId, ts)
          b == cs1[k]
          oldDom == IF domain \in DOMAIN b.byDomain
                    THEN b.byDomain[domain]
                    ELSE [seconds |-> 0, category |-> category]
          newDom == [oldDom EXCEPT !.seconds = @ + seconds]
          oldCat == IF category \in DOMAIN b.byCategory
                    THEN b.byCategory[category]
                    ELSE [minutes |-> 0, seconds |-> 0]
          newCat == CarrySeconds(oldCat, seconds)
          b1 == [updatedAt |-> ts,
                 byCategory |-> [c \in DOMAIN b.byCategory \cup {category} |->
                                   IF c = category THEN newCat ELSE b.byCategory[c]],
                 byDomain |-> [d \in DOMAIN b.byDomain \cup {domain} |->
                                   IF d = domain THEN newDom ELSE b.byDomain[d]]]
      IN [cs1 EXCEPT ![k] = b1]

\* getBucketByDay
HasBucket(userId, day) == <<userId, day>> \in DOMAIN counters

\* whole minutes held by all buckets (what MaxUsageMinutes bounds)
StoredMinutes(cs) ==
    SumOver(DOMAIN cs,
            [k \in DOMAIN cs |->
               SumOver(DOMAIN cs[k].byCategory,
                       [c \in DOMAIN cs[k].byCategory |-> cs[k].byCategory[c].minutes])])

(***************************************************************************)
(* Consent                                                                 *)
(***************************************************************************)
DefaultGrace == [porn |-> DefaultGracePorn, gambling |-> DefaultGraceGambling]
DefaultRates == [porn |-> DefaultRatePornMills, gambling |-> DefaultRateGamblingMills]
DefaultCategoriesOn == [porn |-> TRUE, gambling |-> TRUE]

\* defaults for all three fields unless the snapshot holds all three
getConsentSnapshotWholeDefaults(userId) ==
    IF /\ userId \in DOMAIN consents
       /\ consents[userId].grace.t = "obj"
       /\ consents[userId].rates.t = "obj"
       /\ consents[userId].categoriesOn.t = "obj"
    THEN [grace |-> consents[userId].grace.v,
          rates |-> consents[userId].rates.v,
          categoriesOn |-> consents[userId].categoriesOn.v]
    ELSE [grace |-> DefaultGrace, rates |-> DefaultRates,
          categoriesOn |-> DefaultCategoriesOn]

\* a legacy grace of 0 taken for an absent grace
getConsentSnapshotZeroAsAbsent(userId) ==
    LET snap == IF userId \in DOMAIN consents
                THEN consents[userId]
                ELSE [grace |-> Undefined, rates |-> Undefined, categoriesOn |-> Undefined]
    IN [grace |-> IF snap.grace.t = "num" /\ snap.grace.n # 0
                  THEN [c \in BuiltinCategories |-> snap.grace.n]
                  ELSE IF snap.grace.t = "obj" THEN snap.grace.v
                  ELSE DefaultGrace,
        rates |-> IF snap.rates.t = "obj" THEN snap.rates.v ELSE DefaultRates,
        categoriesOn |-> IF snap.categoriesOn.t = "obj" THEN snap.categoriesOn.v
                         ELSE DefaultCategoriesOn]

\* getConsentSnapshot: grace and rates are maps category -> number,
\* categoriesOn a map category -> BOOLEAN; a category may be missing from each
getConsentSnapshot(userId) ==
    LET snap == IF userId \in DOMAIN consents
                THEN consents[userId]
                ELSE [grace |-> Undefined, rates |-> Undefined, categoriesOn |-> Undefined]
        grace == IF snap.grace.t = "num"
                 THEN [c \in BuiltinCategories |-> snap.grace.n]
                 ELSE IF snap.grace.t = "obj" THEN snap.grace.v
                 ELSE DefaultGrace
        rates == IF snap.rates.t = "obj" THEN snap.rates.v ELSE DefaultRates
        categoriesOn == IF snap.categoriesOn.t = "obj" THEN snap.categoriesOn.v
                        ELSE DefaultCategoriesOn
    IN [grace |-> grace, rates |-> rates, categoriesOn |-> categoriesOn]

IsOnIfListed(categoriesOn, cat) == cat \in DOMAIN categoriesOn

\* categoriesOn?.[cat] as a condition
IsOn(categoriesOn, cat) == cat \in DOMAIN categoriesOn /\ categoriesOn[cat]

\* Math.max(0, Number(grace?.[cat] ?? 0))
GraceOf(grace, cat) == Max(0, IF cat \in DOMAIN grace THEN grace[cat] ELSE 0)

CentsPerMinUnfloored(rates, cat) ==
    RoundCents(Max(0, IF cat \in DOMAIN rates THEN rates[cat] ELSE 0))

\* Math.round(Math.max(CATEGORY_FLOORS[cat] ?? 0, Number(rates?.[cat] ?? 0)) * 100)
CentsPerMin(rates, cat) ==
    LET configured == IF cat \in DOMAIN rates THEN rates[cat] ELSE 0
        floor == IF cat \in DOMAIN CATEGORY_FLOORS THEN CATEGORY_FLOORS[cat] ELSE 0
    IN RoundCents(Max(floor, configured))

(***************************************************************************)
(* Week bounds                                                             *)
(***************************************************************************)
\* toLocalMidnightUTC inside getWeekBounds
toLocalMidnightUTC(d, tzOffsetMinutes) ==
    SetHoursMidnight(d + tzOffsetMinutes * MsPerMinute) - tzOffsetMinutes * MsPerMinute

\* getWeekBounds; weekEndStr is Undefined or Num(day)
getWeekBounds(weekEndStr, tzOffsetMinutes, clock) ==
    LET endDate == IF weekEndStr.t = "num" THEN DayStart(weekEndStr.n) ELSE clock
        endUTC == toLocalMidnightUTC(endDate, tzOffsetMinutes)
        local == endUTC + tzOffsetMinutes * MsPerMinute
        dow == GetDay(local)
        daysToSunday == (7 - dow) % 7
        weekEndLocal0 == local + daysToSunday * MsPerDay
        weekStartLocal0 == weekEndLocal0 - 6 * MsPerDay
        weekStartLocal == SetHoursMidnight(weekStartLocal0)
        weekEndLocal == SetHoursEndOfDay(weekEndLocal0)
        weekStartUTC == weekStartLocal - tzOffsetMinutes * MsPerMinute
        weekEndUTC == weekEndLocal - tzOffsetMinutes * MsPerMinute
    IN [weekStartUTC |-> weekStartUTC,
        weekEndUTC |-> weekEndUTC,
        weekStartStr |-> dayKey(weekStartUTC),
        weekEndStr |-> dayKey(weekEndUTC)]

isDayInRange(day, startUTC, endUTC, tzOffsetMinutes) ==
    LET asLocalMidnightUTC == DayStart(day) - tzOffsetMinutes * MsPerMinute
    IN asLocalMidnightUTC >= startUTC /\ asLocalMidnightUTC <= endUTC

(***************************************************************************)
(* Weekly aggregation                                                      *)
(***************************************************************************)
\* the keys of `counters` the loop of collectWeeklyBillableMinutes does not skip
KeysInWeek(userId, weekStartUTC, weekEndUTC, tzOffsetMinutes) ==
    {k \in DOMAIN counters :
        /\ k[1] = userId
        /\ isDayInRange(k[2], weekStartUTC, weekEndUTC, tzOffsetMinutes)}

BillableOfDayRoundedUp(bucket, cat, grace) ==
    Max(0, bucket.byCategory[cat].minutes
           + (IF bucket.byCategory[cat].seconds > 0 THEN 1 ELSE 0)
           - GraceOf(grace, cat))

\* Math.max(0, wholeMins - g) of one bucket entry
BillableOfDay(bucket, cat, grace) ==
    Max(0, bucket.byCategory[cat].minutes - GraceOf(grace, cat))

WeeklyBillablePooled(keys, cat, grace) ==
    Max(0, SumOver({k \in keys : cat \in DOMAIN counters[k].byCategory},
                   [k \in keys |->
                      IF cat \in DOMAIN counters[k].byCategory
                      THEN counters[k].byCategory[cat].minutes
                      ELSE 0])
           - GraceOf(grace, cat))

\* totalsMinutes[cat] after the loop over the buckets of the week
WeeklyBillable(keys, cat, grace) ==
    SumOver({k \in keys : cat \in DOMAIN counters[k].byCategory},
            [k \in keys |->
               IF cat \in DOMAIN counters[k].byCategory
               THEN BillableOfDay(counters[k], cat, grace)
               ELSE 0])

\* collectWeeklyBillableMinutes: perCat and totalCents
collectWeeklyBillableMinutes(userId, weekStartUTC, weekEndUTC, tzOffsetMinutes) ==
    LET cons == getConsentSnapshot(userId)
        keys == KeysInWeek(userId, weekStartUTC, weekEndUTC, tzOffsetMinutes)
        cats == {c \in UNION {DOMAIN counters[k].byCategory : k \in keys} :
                    IsOn(cons.categoriesOn, c)}
        totalsMinutes == [c \in cats |-> WeeklyBillable(keys, c, cons.grace)]
        perCat ==
            [c \in cats |->
               [minutes |-> totalsMinutes[c],
                centsPerMin |-> CentsPerMin(cons.rates, c),
                centsTotal |-> CentsPerMin(cons.rates, c) * totalsMinutes[c]]]
    IN [perCat |-> perCat,
        totalCents |-> SumOver(cats, [c \in cats |-> perCat[c].centsTotal])]

\* weeklyRolloversCents.get(userId) || 0
RolloverOf(userId) ==
    IF userId \in DOMAIN weeklyRolloversCents THEN weeklyRolloversCents[userId] ELSE 0

(***************************************************************************)
(* Settlement                                                              *)
(***************************************************************************)
\* `vb_weekly_${userId}_${weekStartStr}_${weekEndStr}_${grandTotal}`: the
\* "_"-joined fields of the template
IdemKeyOfWeekTotal(userId, weekStartStr, weekEndStr, totalCents, rollover) ==
    <<"vb_weekly", userId, weekStartStr, weekEndStr, totalCents>>

IdemKey(userId, weekStartStr, weekEndStr, totalCents, rollover) ==
    <<"vb_weekly", userId, weekStartStr, weekEndStr, totalCents + rollover>>

\* the locals of POST /api/settle/week and chargeWeeklyIfEligible up to the
\* processor call, for one request
SettleFrame(userId, weekEnd, tzOffsetMinutes) ==
    LET wb == getWeekBounds(weekEnd, tzOffsetMinutes, now)
        agg == collectWeeklyBillableMinutes(userId, wb.weekStartUTC, wb.weekEndUTC,
                                            tzOffsetMinutes)
        rollover == RolloverOf(userId)
    IN [userId |-> userId,
        weekEnd |-> weekEnd,
        tzOffsetMinutes |-> tzOffsetMinutes,
        weekStartStr |-> wb.weekStartStr,
        weekEndStr |-> wb.weekEndStr,
        perCat |-> agg.perCat,
        totalCents |-> agg.totalCents,
        rollover |-> rollover,
        grandTotal |-> agg.totalCents + rollover,
        idemKey |-> IdemKey(userId, wb.weekStartStr, wb.weekEndStr,
                            agg.totalCents, rollover)]

(***************************************************************************)
(* Map and sequence helpers                                                *)
(***************************************************************************)
\* map.set(k, v)
MapSet(m, k, v) == [x \in DOMAIN m \cup {k} |-> IF x = k THEN v ELSE m[x]]

\* the sequence without its i-th element
RemoveAt(seq, i) == SubSeq(seq, 1, i - 1) \o SubSeq(seq, i + 1, Len(seq))

\* history: seconds given to addUsage so far for <<userId, day, category>>
UsedOf(used, key) == IF key \in DOMAIN used THEN used[key] ELSE 0

\* history: the week a settle request is about, named by the day number of
\* the Monday its window starts on in local time
WeekOf(weekEnd, tzOffsetMinutes, clock) ==
    LET wb == getWeekBounds(weekEnd, tzOffsetMinutes, clock)
    IN dayKey(wb.weekStartUTC + tzOffsetMinutes * MsPerMinute)

(***************************************************************************)
(* POST /api/session/start                                                 *)
(***************************************************************************)
\* the handler as the server runs it, whoever sent the request
SessionStartHandler(userId, sessionId, tzOffsetMinutes) ==
    /\ IF userId = "" \/ sessionId = ""
       THEN /\ response' = [op |-> "session_start", status |-> 400]
            /\ UNCHANGED sessions
       ELSE /\ sessions' = MapSet(sessions, sessionId,
                                  [userId |-> userId, tzOffsetMinutes |-> tzOffsetMinutes])
            /\ response' = [op |-> "session_start", status |-> 200,
                            userId |-> userId, sessionId |-> sessionId]
    /\ UNCHANGED <<now, stripe, consents, counters, weeklyRolloversCents, pending,
                   charges, usedSeconds, carried>>

SessionStart(userId, sessionId, tzOffsetMinutes) ==
    SessionStartHandler(userId, sessionId, tzOffsetMinutes) /\ UNCHANGED ext

(***************************************************************************)
(* POST /api/consent                                                       *)
(***************************************************************************)
Consent(userId, snap) ==
    /\ IF userId = ""
       THEN /\ response' = [op |-> "consent", status |-> 400]
            /\ UNCHANGED consents
       ELSE /\ consents' = MapSet(consents, userId, snap)
            /\ response' = [op |-> "consent", status |-> 200, userId |-> userId]
    /\ UNCHANGED <<now, stripe, ext, sessions, counters, weeklyRolloversCents, pending,
                   charges, usedSeconds, carried>>

(***************************************************************************)
(* POST /api/track                                                         *)
(***************************************************************************)
\* a null element of events
NullEvent == [null |-> TRUE]

\* !ev
IsNullEvent(ev) == "null" \in DOMAIN ev

\* a domain field that holds a truthy value that is not a string (a number,
\* an object, true)
NonStringDomain == <<"{}">>

\* (ev.domain || ...)?.replace(...) throws a TypeError: the value is not
\* nullish and has no replace method
DomainThrows(ev) == ev.domain = NonStringDomain

\* (ev.domain || hostFromUrlSafe(ev.url))?.replace(/^www\./, "") || null
EventDomain(ev) == StripWww(IF ev.domain # << >> THEN ev.domain ELSE ev.url)

\* ev.category || categorizeDomain(domain)
EventCategory(ev) ==
    IF ev.category # "" THEN ev.category ELSE categorizeDomain(EventDomain(ev))

\* Number.isFinite(ev.ts) ? ev.ts : Date.now()
EventTs(ev, clock) == IF ev.ts.t = "num" THEN ev.ts.n ELSE clock

\* category && seconds > 0 && domain
EventAccepted(ev) ==
    EventCategory(ev) # "" /\ ev.seconds > 0 /\ EventDomain(ev) # << >>

\* the event loop of the handler: counters, the seconds history and `accepted`
\* after the events from index i on; `thrown` when an event made the loop
\* throw, which ends it
RECURSIVE ApplyEvents(_, _, _, _, _)
ApplyEvents(acc, userId, events, i, clock) ==
    IF i > Len(events) THEN acc
    ELSE IF IsNullEvent(events[i]) THEN ApplyEvents(acc, userId, events, i + 1, clock)
    ELSE IF DomainThrows(events[i]) THEN [acc EXCEPT !.thrown = TRUE]
    ELSE
      LET ev == events[i]
          ts == EventTs(ev, clock)
          key == <<userId, dayKey(ts), EventCategory(ev)>>
      IN IF EventAccepted(ev)
         THEN ApplyEvents(
                [cs |-> addUsage(acc.cs, userId, EventDomain(ev), EventCategory(ev),
                                 ev.seconds, ts),
                 used |-> MapSet(acc.used, key, UsedOf(acc.used, key) + ev.seconds),
                 accepted |-> acc.accepted + 1,
                 thrown |-> FALSE],
                userId, events, i + 1, clock)
         ELSE ApplyEvents(acc, userId, events, i + 1, clock)

\* the handler as the server runs it, whoever sent the request
TrackHandler(userId, sessionId, events) ==
    IF userId = "" \/ sessionId = ""
    THEN /\ response' = [op |-> "track", status |-> 400]
         /\ UNCHANGED <<now, stripe, consents, sessions, counters, weeklyRolloversCents,
                        pending, charges, usedSeconds, carried>>
    ELSE IF sessionId \notin DOMAIN sessions \/ sessions[sessionId].userId # userId
    THEN /\ response' = [op |-> "track", status |-> 400]
         /\ UNCHANGED <<now, stripe, consents, sessions, counters, weeklyRolloversCents,
                        pending, charges, usedSeconds, carried>>
    ELSE
      LET r == ApplyEvents([cs |-> counters, used |-> usedSeconds, accepted |-> 0,
                            thrown |-> FALSE],
                           userId, events, 1, now)
          cs2 == ensureCounterBucket(r.cs, userId, now)
      IN /\ usedSeconds' = r.used
         /\ IF r.thrown
            THEN \* the exception leaves the handler: the framework answers 500
                 /\ counters' = r.cs
                 /\ response' = [op |-> "track", status |-> 500, userId |-> userId,
                                 call |-> [events |-> events]]
            ELSE /\ counters' = cs2
                 /\ response' = [op |-> "track", status |-> 200, userId |-> userId,
                                 call |-> [events |-> events],
                                 accepted |-> r.accepted, day |-> dayKey(now),
                                 byCategory |-> cs2[keyUserDay(userId, now)].byCategory]
         /\ UNCHANGED <<now, stripe, consents, sessions, weeklyRolloversCents,
                        pending, charges, carried>>

Track(userId, sessionId, events) ==
    TrackHandler(userId, sessionId, events) /\ UNCHANGED ext

(***************************************************************************)
(* GET /api/preview/week                                                   *)
(***************************************************************************)
PreviewBodyOfWeekOnly(userId, weekEnd, tzOffsetMinutes) ==
    LET wb == getWeekBounds(weekEnd, tzOffsetMinutes, now)
        agg == collectWeeklyBillableMinutes(userId, wb.weekStartUTC, wb.weekEndUTC,
                                            tzOffsetMinutes)
    IN [weekStart |-> wb.weekStartStr,
        weekEnd |-> wb.weekEndStr,
        perCategory |-> agg.perCat,
        totalCents |-> agg.totalCents,
        rolloverCents |-> RolloverOf(userId),
        wouldChargeCents |-> IF agg.totalCents >= STRIPE_MIN_CENTS
                             THEN agg.totalCents ELSE 0,
        wouldCarryCents |-> IF agg.totalCents < STRIPE_MIN_CENTS
                            THEN agg.totalCents ELSE 0]

PreviewBody(userId, weekEnd, tzOffsetMinutes) ==
    LET wb == getWeekBounds(weekEnd, tzOffsetMinutes, now)
        agg == collectWeeklyBillableMinutes(userId, wb.weekStartUTC, wb.weekEndUTC,
                                            tzOffsetMinutes)
        rollover == RolloverOf(userId)
        withRollover == agg.totalCents + rollover
    IN [weekStart |-> wb.weekStartStr,
        weekEnd |-> wb.weekEndStr,
        perCategory |-> agg.perCat,
        totalCents |-> agg.totalCents,
        rolloverCents |-> rollover,
        wouldChargeCents |-> IF withRollover >= STRIPE_MIN_CENTS THEN withRollover ELSE 0,
        wouldCarryCents |-> IF withRollover < STRIPE_MIN_CENTS THEN withRollover ELSE 0]

PreviewTouchingToday(userId, weekEnd, tzOffsetMinutes) ==
    /\ userId # ""
    /\ counters' = ensureCounterBucket(counters, userId, now)
    /\ response' = [op |-> "preview", status |-> 200, userId |-> userId,
                    query |-> [weekEnd |-> weekEnd,
                               tzOffsetMinutes |-> tzOffsetMinutes],
                    at |-> now,
                    body |-> PreviewBody(userId, weekEnd, tzOffsetMinutes)]
    /\ UNCHANGED <<now, stripe, ext, consents, sessions, weeklyRolloversCents,
                   pending, charges, usedSeconds, carried>>

Preview(userId, weekEnd, tzOffsetMinutes) ==
    /\ IF userId = ""
       THEN response' = [op |-> "preview", status |-> 400]
       ELSE response' = [op |-> "preview", status |-> 200, userId |-> userId,
                         query |-> [weekEnd |-> weekEnd,
                                    tzOffsetMinutes |-> tzOffsetMinutes],
                         at |-> now,
                         body |-> PreviewBody(userId, weekEnd, tzOffsetMinutes)]
    /\ UNCHANGED <<now, stripe, ext, consents, sessions, counters, weeklyRolloversCents,
                   pending, charges, usedSeconds, carried>>

(***************************************************************************)
(* GET /api/counters/today                                                 *)
(***************************************************************************)
CountersToday(userId) ==
    IF userId = ""
    THEN /\ response' = [op |-> "counters_today", status |-> 400]
         /\ UNCHANGED <<now, stripe, ext, consents, sessions, counters, weeklyRolloversCents,
                        pending, charges, usedSeconds, carried>>
    ELSE LET cs == ensureCounterBucket(counters, userId, now)
             bucket == cs[keyUserDay(userId, now)]
         IN /\ counters' = cs
            /\ response' = [op |-> "counters_today", status |-> 200, userId |-> userId,
                            body |-> [day |-> dayKey(now),
                                      updatedAt |-> bucket.updatedAt,
                                      byCategory |-> bucket.byCategory,
                                      byDomain |-> bucket.byDomain]]
            /\ UNCHANGED <<now, stripe, ext, consents, sessions, weeklyRolloversCents,
                           pending, charges, usedSeconds, carried>>

(***************************************************************************)
(* GET /api/dashboard                                                      *)
(***************************************************************************)
\* daysAgoUTCStr
daysAgoUTCStr(daysAgo) == dayKey(now) - daysAgo

\* computeDailyBillable
computeDailyBillable(userId, dayStr) ==
    IF ~HasBucket(userId, dayStr)
    THEN [exists |-> FALSE, billableCents |-> 0, minutes |-> << >>,
          billableMinutes |-> << >>]
    ELSE
      LET cons == getConsentSnapshot(userId)
          bucket == counters[<<userId, dayStr>>]
          m == [c \in BuiltinCategories |->
                  IF c \in DOMAIN bucket.byCategory
                  THEN bucket.byCategory[c].minutes ELSE 0]
          billable == [c \in BuiltinCategories |->
                         IF IsOn(cons.categoriesOn, c)
                         THEN Max(0, m[c] - GraceOf(cons.grace, c))
                         ELSE 0]
      IN [exists |-> TRUE,
          billableCents |->
              SumOver(BuiltinCategories,
                      [c \in BuiltinCategories |->
                         billable[c] * CentsPerMin(cons.rates, c)]),
          minutes |-> m,
          billableMinutes |-> billable]

\* listUserDays, as a set (the code sorts it ascending)
listUserDays(userId) == {k[2] : k \in {q \in DOMAIN counters : q[1] = userId}}

\* a stored day that is clean: exists and has no billable cents
IsCleanDay(userId, day) ==
    LET d == computeDailyBillable(userId, day)
    IN d.exists /\ d.billableCents = 0

\* the stored days of a user that are clean
CleanDays(userId) == {d \in listUserDays(userId) : IsCleanDay(userId, d)}

\* the maximal stretches of consecutive days in a set of days
RunsOf(clean) ==
    {[start |-> p[1], end |-> p[2], length |-> p[2] - p[1] + 1] :
       p \in {q \in clean \X clean :
                /\ q[1] <= q[2]
                /\ \A d \in q[1]..q[2] : d \in clean
                /\ (q[1] - 1) \notin clean
                /\ (q[2] + 1) \notin clean}}

\* `runs` of computeStreakStats: the maximal stretches of consecutive clean
\* stored days (a day that is not clean and a gap both end a stretch)
StreakRuns(userId) == UNION {RunsOf(clean) : clean \in {CleanDays(userId)}}

\* currentStreakDays of computeStreakStats
CurrentStreakDays(userId, runs, today) ==
    IF IsCleanDay(userId, today) /\ (\E r \in runs : r.end = today)
    THEN (CHOOSE r \in runs : r.end = today).length
    ELSE 0

\* lastRun of computeStreakStats: the run before the one that ends today
\* when there is a current streak, the most recent run otherwise
LastRunOf(runs, today, currentStreakDays) ==
    LET before == IF currentStreakDays > 0
                  THEN {r \in runs : r.end < today}
                  ELSE runs
    IN IF before = {} THEN Undefined
       ELSE Obj(CHOOSE r \in before : \A q \in before : q.end <= r.end)

\* lastBreakDay of computeStreakStats
LastBreakDayOf(userId, lastRun) ==
    IF lastRun.t # "obj" THEN Undefined
    ELSE LET candData == computeDailyBillable(userId, lastRun.v.end + 1)
         IN IF candData.exists /\ candData.billableCents > 0
            THEN Num(lastRun.v.end + 1) ELSE Undefined

\* the record computeStreakStats returns
StreakStatsOf(userId, currentStreakDays, lastRun) ==
    [totalDaysWithData |-> Cardinality(listUserDays(userId)),
     totalCleanDays |-> Cardinality(CleanDays(userId)),
     currentStreakDays |-> currentStreakDays,
     lastStreak |-> IF lastRun.t = "obj"
                    THEN Obj([length |-> lastRun.v.length,
                              start |-> lastRun.v.start,
                              end |-> lastRun.v.end])
                    ELSE Undefined,
     lastBreakDay |-> LastBreakDayOf(userId, lastRun)]

computeStreakStats(userId) ==
    CHOOSE stats \in
        {StreakStatsOf(userId, cur, LastRunOf(runs, dayKey(now), cur)) :
           <<runs, cur>> \in
             {<<r, CurrentStreakDays(userId, r, dayKey(now))>> :
                r \in {StreakRuns(userId)}}} : TRUE

\* the last14 list: days today-13 .. today
LastDays(userId) ==
    [i \in 1..14 |->
       LET dayStr == daysAgoUTCStr(14 - i)
           d == computeDailyBillable(userId, dayStr)
       IN [day |-> dayStr,
           status |-> IF ~d.exists THEN "no_data"
                      ELSE IF d.billableCents > 0 THEN "billable" ELSE "clean",
           billableCents |-> d.billableCents,
           minutes |-> d.minutes,
           billableMinutes |-> d.billableMinutes]]

\* the `streak` object of the answer
StreakOf(streakStats, lastDays) ==
    [days |-> streakStats.currentStreakDays,
     totalCleanDays |-> streakStats.totalCleanDays,
     totalDaysWithData |-> streakStats.totalDaysWithData,
     lastStreak |-> streakStats.lastStreak,
     lastBreakDay |-> streakStats.lastBreakDay,
     last14 |-> lastDays]

DashboardBody(userId, tzOffsetMinutes) ==
    [wallet |-> PreviewBody(userId, Undefined, tzOffsetMinutes),
     streak |-> StreakOf(computeStreakStats(userId), LastDays(userId))]

Dashboard(userId, tzOffsetMinutes) ==
    /\ IF userId = ""
       THEN response' = [op |-> "dashboard", status |-> 400]
       ELSE response' = [op |-> "dashboard", status |-> 200, userId |-> userId,
                         query |-> [tzOffsetMinutes |-> tzOffsetMinutes],
                         at |-> now,
                         body |-> DashboardBody(userId, tzOffsetMinutes)]
    /\ UNCHANGED <<now, stripe, ext, consents, sessions, counters, weeklyRolloversCents,
                   pending, charges, usedSeconds, carried>>

(***************************************************************************)
(* POST /api/settle/week and chargeWeeklyIfEligible                        *)
(***************************************************************************)
SettleBody(f, settlement) ==
    [weekStart |-> f.weekStartStr,
     weekEnd |-> f.weekEndStr,
     perCategory |-> f.perCat,
     totalCents |-> f.totalCents,
     settlement |-> settlement]

\* the amount a below-minimum settle stores as rollover and reports as carriedCents
CarriedCentsIncrement(f) == f.rollover + f.grandTotal

CarriedCents(f) == f.grandTotal

\* the processor looked for only when a charge is about to be created
SettleWeekStripeAtCharge(userId, weekEnd, tzOffsetMinutes) ==
    IF userId = ""
    THEN /\ response' = [op |-> "settle", status |-> 400, error |-> "userId required"]
         /\ UNCHANGED <<now, stripe, ext, consents, sessions, counters, weeklyRolloversCents,
                        pending, charges, usedSeconds, carried>>
    ELSE
      LET f == SettleFrame(userId, weekEnd, tzOffsetMinutes)
          week == WeekOf(weekEnd, tzOffsetMinutes, now)
          old == IF userId \in DOMAIN carried THEN carried[userId] ELSE << >>
      IN IF f.grandTotal < STRIPE_MIN_CENTS
         THEN /\ weeklyRolloversCents' = MapSet(weeklyRolloversCents, userId,
                                                 f.grandTotal)
              /\ carried' = MapSet(carried, userId, MapSet(old, week, f.totalCents))
              /\ response' = [op |-> "settle", status |-> 200, userId |-> userId,
                              call |-> f,
                              body |-> SettleBody(f, [charged |-> 0,
                                                      carriedCents |-> f.grandTotal,
                                                      reason |-> "below_minimum"])]
              /\ UNCHANGED <<now, stripe, ext, consents, sessions, counters, pending,
                             charges, usedSeconds>>
         ELSE IF ~stripe
         THEN /\ response' = [op |-> "settle", status |-> 500, userId |-> userId,
                              error |-> "Stripe not configured"]
              /\ UNCHANGED <<now, stripe, ext, consents, sessions, counters,
                             weeklyRolloversCents, pending, charges, usedSeconds,
                             carried>>
         ELSE /\ pending' = Append(pending, f)
              /\ UNCHANGED <<now, stripe, ext, consents, sessions, counters,
                             weeklyRolloversCents, charges, response, usedSeconds,
                             carried>>

\* an amount equal to the minimum carried instead of charged
SettleWeekCarryAtMinimum(userId, weekEnd, tzOffsetMinutes) ==
    IF userId = ""
    THEN /\ response' = [op |-> "settle", status |-> 400, error |-> "userId required"]
         /\ UNCHANGED <<now, stripe, ext, consents, sessions, counters, weeklyRolloversCents,
                        pending, charges, usedSeconds, carried>>
    ELSE IF ~stripe
    THEN /\ response' = [op |-> "settle", status |-> 500, userId |-> userId,
                         error |-> "Stripe not configured"]
         /\ UNCHANGED <<now, stripe, ext, consents, sessions, counters, weeklyRolloversCents,
                        pending, charges, usedSeconds, carried>>
    ELSE
      LET f == SettleFrame(userId, weekEnd, tzOffsetMinutes)
          week == WeekOf(weekEnd, tzOffsetMinutes, now)
          old == IF userId \in DOMAIN carried THEN carried[userId] ELSE << >>
      IN IF f.grandTotal <= STRIPE_MIN_CENTS
         THEN /\ weeklyRolloversCents' = MapSet(weeklyRolloversCents, userId,
                                                 CarriedCents(f))
              /\ carried' = MapSet(carried, userId, MapSet(old, week, f.totalCents))
              /\ response' = [op |-> "settle", status |-> 200, userId |-> userId,
                              call |-> f,
                              body |-> SettleBody(f, [charged |-> 0,
                                                      carriedCents |-> CarriedCents(f),
                                                      reason |-> "below_minimum"])]
              /\ UNCHANGED <<now, stripe, ext, consents, sessions, counters, pending,
                             charges, usedSeconds>>
         ELSE /\ pending' = Append(pending, f)
              /\ UNCHANGED <<now, stripe, ext, consents, sessions, counters,
                             weeklyRolloversCents, charges, response, usedSeconds,
                             carried>>

\* the request up to its first suspension: validation, aggregation, the
\* below-minimum branch, or the call of stripe.paymentIntents.create
SettleWeek(userId, weekEnd, tzOffsetMinutes) ==
    IF userId = ""
    THEN /\ response' = [op |-> "settle", status |-> 400, error |-> "userId required"]
         /\ UNCHANGED <<now, stripe, ext, consents, sessions, counters, weeklyRolloversCents,
                        pending, charges, usedSeconds, carried>>
    ELSE IF ~stripe
    THEN /\ response' = [op |-> "settle", status |-> 500, userId |-> userId,
                         error |-> "Stripe not configured"]
         /\ UNCHANGED <<now, stripe, ext, consents, sessions, counters, weeklyRolloversCents,
                        pending, charges, usedSeconds, carried>>
    ELSE
      LET f == SettleFrame(userId, weekEnd, tzOffsetMinutes)
          week == WeekOf(weekEnd, tzOffsetMinutes, now)
          old == IF userId \in DOMAIN carried THEN carried[userId] ELSE << >>
      IN IF f.grandTotal < STRIPE_MIN_CENTS
         THEN /\ weeklyRolloversCents' = MapSet(weeklyRolloversCents, userId,
                                                 CarriedCents(f))
              /\ carried' = MapSet(carried, userId, MapSet(old, week, f.totalCents))
              /\ response' = [op |-> "settle", status |-> 200, userId |-> userId,
                              call |-> f,
                              body |-> SettleBody(f, [charged |-> 0,
                                                      carriedCents |-> CarriedCents(f),
                                                      reason |-> "below_minimum"])]
              /\ UNCHANGED <<now, stripe, ext, consents, sessions, counters, pending,
                             charges, usedSeconds>>
         ELSE /\ pending' = Append(pending, f)
              /\ UNCHANGED <<now, stripe, ext, consents, sessions, counters,
                             weeklyRolloversCents, charges, response, usedSeconds,
                             carried>>

ProcessorSucceedsKeepsRollover(i) ==
    LET f == pending[i] IN
    /\ i \in 1..Len(pending)
    /\ charges' = IF f.idemKey \in DOMAIN charges THEN charges
                  ELSE MapSet(charges, f.idemKey,
                              [amount |-> f.grandTotal, userId |-> f.userId,
                               weekStart |-> f.weekStartStr, weekEnd |-> f.weekEndStr,
                               rollover |-> f.rollover])
    /\ pending' = RemoveAt(pending, i)
    /\ response' = [op |-> "settle", status |-> 200, userId |-> f.userId,
                    call |-> f,
                    body |-> SettleBody(f, [charged |-> f.grandTotal,
                                            paymentIntentId |-> f.idemKey,
                                            status |-> "succeeded"])]
    /\ UNCHANGED <<now, stripe, ext, consents, sessions, counters, weeklyRolloversCents,
                   usedSeconds, carried>>

\* stripe.paymentIntents.create resolves for the i-th suspended call: the
\* processor keeps one PaymentIntent per idempotency key and answers a
\* repeated key with the PaymentIntent it holds
ProcessorSucceeds(i) ==
    LET f == pending[i] IN
    /\ i \in 1..Len(pending)
    /\ charges' = IF f.idemKey \in DOMAIN charges THEN charges
                  ELSE MapSet(charges, f.idemKey,
                              [amount |-> f.grandTotal, userId |-> f.userId,
                               weekStart |-> f.weekStartStr, weekEnd |-> f.weekEndStr,
                               rollover |-> f.rollover])
    /\ pending' = RemoveAt(pending, i)
    /\ weeklyRolloversCents' = MapSet(weeklyRolloversCents, f.userId, 0)
    /\ carried' = MapSet(carried, f.userId, << >>)
    /\ response' = [op |-> "settle", status |-> 200, userId |-> f.userId,
                    call |-> f,
                    body |-> SettleBody(f, [charged |-> f.grandTotal,
                                            paymentIntentId |-> f.idemKey,
                                            status |-> "succeeded"])]
    /\ UNCHANGED <<now, stripe, ext, consents, sessions, counters, usedSeconds>>

ProcessorFailsAfterReset(i) ==
    LET f == pending[i] IN
    /\ i \in 1..Len(pending)
    /\ pending' = RemoveAt(pending, i)
    /\ weeklyRolloversCents' = MapSet(weeklyRolloversCents, f.userId, 0)
    /\ response' = [op |-> "settle", status |-> 400, userId |-> f.userId,
                    call |-> f,
                    retry |-> SettleFrame(f.userId, f.weekEnd, f.tzOffsetMinutes),
                    error |-> "processor error"]
    /\ UNCHANGED <<now, stripe, ext, consents, sessions, counters, charges, usedSeconds,
                   carried>>

\* stripe.paymentIntents.create rejects for the i-th suspended call (declined,
\* network error): the catch of the handler answers 400
ProcessorFails(i) ==
    LET f == pending[i] IN
    /\ i \in 1..Len(pending)
    /\ pending' = RemoveAt(pending, i)
    /\ response' = [op |-> "settle", status |-> 400, userId |-> f.userId,
                    call |-> f,
                    retry |-> SettleFrame(f.userId, f.weekEnd, f.tzOffsetMinutes),
                    error |-> "processor error"]
    /\ UNCHANGED <<now, stripe, ext, consents, sessions, counters, weeklyRolloversCents,
                   charges, usedSeconds, carried>>

(***************************************************************************)
(* The clock                                                               *)
(***************************************************************************)
AdvanceClock(t) ==
    /\ t > now
    /\ now' = t
    /\ UNCHANGED <<stripe, ext, consents, sessions, counters, weeklyRolloversCents,
                   pending, charges, response, usedSeconds, carried>>

(***************************************************************************)
(* Inputs shared by the specifications.                                    *)
(* Day n is the date n days after 1970-01-01: days 4 and 11 (1970-01-05    *)
(* and 1970-01-12) are Mondays, days 10 and 17 the Sundays after them.     *)
(***************************************************************************)
Users == {"u1", "u2"}

Noon(day) == day * MsPerDay + 12 * 60 * MsPerMinute

PornHost == <<"www", ".", "pornhub", ".", "com">>
StakeHost == <<"stake", ".", "com">>

Event(url, seconds, ts) ==
    [domain |-> << >>, url |-> url, category |-> "", seconds |-> seconds, ts |-> ts]

Snapshot(grace, rates, categoriesOn) ==
    [grace |-> grace, rates |-> rates, categoriesOn |-> categoriesOn]

InitResponse == [op |-> "none", status |-> 0]

\* the extension after onInstalled: DEFAULTS in chrome.storage, no active
\* flagged tab, the vb_tick alarm not yet due
NoDate == 0 - 1
NoCounts == [freeMin |-> 0, paidMin |-> 0]
ExtInstalled ==
    [grace |-> [porn |-> 3, gambling |-> 3],
     counters |-> [date |-> NoDate, porn |-> NoCounts, gambling |-> NoCounts],
     paidActive |-> [porn |-> FALSE, gambling |-> FALSE],
     active |-> [category |-> "", sinceTs |-> 0],
     alarmAt |-> 0,
     modal |-> "",
     visitSent |-> 0,
     ticks |-> 0,
     lastTick |-> "",
     continuedDay |-> [porn |-> NoDate, gambling |-> NoDate],
     started |-> << >>,
     handlers |-> << >>]

Init ==
    /\ now = Noon(5)
    /\ stripe \in BOOLEAN
    /\ consents = << >>
    /\ sessions = << >>
    /\ counters = << >>
    /\ weeklyRolloversCents = << >>
    /\ pending = << >>
    /\ charges = << >>
    /\ response = InitResponse
    /\ usedSeconds = << >>
    /\ carried = << >>
    /\ ext = ExtInstalled

(***************************************************************************)
(* Settlement specification: one user tracks usage in two weeks, consents  *)
(* and settles either week; the processor answers or rejects each call.    *)
(***************************************************************************)
SettleEvents ==
    {Event(PornHost, 300, Num(Noon(5))),      \* 5 minutes, Tuesday of the first week
     Event(StakeHost, 360, Num(Noon(12)))}    \* 6 minutes, Tuesday of the second week

SettleConsents ==
    {Snapshot(Obj([porn |-> 1, gambling |-> 0]),
              Obj([porn |-> 250, gambling |-> 500]),
              Obj([porn |-> TRUE, gambling |-> TRUE]))}

WeekEnds == {Undefined, Num(17)}   \* the week of `now`, or the week ending Sunday day 17

Next ==
    \/ SessionStart("u1", "s1", 0)
    \/ \E c \in SettleConsents : Consent("u1", c)
    \/ \E ev \in SettleEvents :
          Track("u1", "s1", <<ev>>) /\ StoredMinutes(counters') <= MaxUsageMinutes
    \/ \E w \in WeekEnds : SettleWeek("u1", w, 0) /\ Len(pending') <= MaxInflight
    \/ \E i \in 1..Len(pending) :
          ProcessorSucceeds(i) /\ Cardinality(DOMAIN charges') <= MaxCharges
    \/ \E i \in 1..Len(pending) : ProcessorFails(i)

Spec == Init /\ [][Next]_vars

(***************************************************************************)
(* Settlement claims (specification Spec)                                  *)
(***************************************************************************)
\* cents of the PaymentIntents the processor holds for a user
ChargedCents(u) ==
    SumOver({k \in DOMAIN charges : charges[k].userId = u},
            [k \in DOMAIN charges |-> charges[k].amount])

\* billable cents a user's stored usage amounts to under the documented
\* default rules: porn 1 free minute a day at 5 cents, gambling 0 at 50 cents
AccruedDefaultCents(u) ==
    SumOver({k \in DOMAIN counters : k[1] = u},
            [k \in DOMAIN counters |->
               Max(0, counters[k].byCategory["porn"].minutes - 1) * 5
               + counters[k].byCategory["gambling"].minutes * 50])

\* C1: for a user billed under the default rules throughout (no consent was
\* ever stored, so only ticks and settles act on the user), the cents the
\* processor has charged never exceed the billable cents accrued so far.
C1_ChargedAtMostAccrued ==
    \A u \in Users :
        u \notin DOMAIN consents => ChargedCents(u) <= AccruedDefaultCents(u)

\* the requests sent to the processor that the state still shows: the calls
\* suspended at it and the PaymentIntents it holds
SentRequests ==
    {[key |-> pending[i].idemKey, userId |-> pending[i].userId,
      weekStart |-> pending[i].weekStartStr, weekEnd |-> pending[i].weekEndStr,
      amount |-> pending[i].grandTotal] : i \in 1..Len(pending)}
    \cup
    {[key |-> k, userId |-> charges[k].userId, weekStart |-> charges[k].weekStart,
      weekEnd |-> charges[k].weekEnd, amount |-> charges[k].amount] :
        k \in DOMAIN charges}

\* C2: two requests sent with the same (userId, weekStart, weekEnd, grandTotal)
\* carry the same idempotency key, and two requests whose grandTotal (the
\* amount asked) differs carry different keys.
C2_KeyFollowsGrandTotal ==
    \A r1, r2 \in SentRequests :
        /\ (r1.userId = r2.userId /\ r1.weekStart = r2.weekStart
            /\ r1.weekEnd = r2.weekEnd /\ r1.amount = r2.amount) => r1.key = r2.key
        /\ r1.amount # r2.amount => r1.key # r2.key

\* a settle is retried with the totals of a charge the processor already
\* holds, while the processor also holds a charge of another amount
C2_Witness ==
    \E i \in 1..Len(pending) :
        /\ pending[i].idemKey \in DOMAIN charges
        /\ \E k \in DOMAIN charges : charges[k].amount # pending[i].grandTotal

\* a step in which POST /api/settle/week is entered and runs up to its
\* answer or to the processor call
SettleEntryStep ==
    /\ now' = now
    /\ \/ Len(pending') = Len(pending) + 1
       \/ /\ pending' = pending
          /\ response'.op = "settle"
          /\ response'.status = 200

\* the call entered by such a step
EnteredCall ==
    IF Len(pending') > Len(pending) THEN pending'[Len(pending')] ELSE response'.call

\* totalCents + rollover as the state before the step gives them
SumBefore(c) ==
    LET wb == getWeekBounds(c.weekEnd, c.tzOffsetMinutes, now)
    IN collectWeeklyBillableMinutes(c.userId, wb.weekStartUTC, wb.weekEndUTC,
                                    c.tzOffsetMinutes).totalCents
       + RolloverOf(c.userId)

\* a step in which the processor call of the i-th suspended settle fails
SettleFailureStep(i) ==
    /\ i \in 1..Len(pending)
    /\ pending' = RemoveAt(pending, i)
    /\ response'.op = "settle"
    /\ response'.status # 200

\* a step in which the processor call of the i-th suspended settle succeeds
SettleSuccessStep(i) ==
    /\ i \in 1..Len(pending)
    /\ pending' = RemoveAt(pending, i)
    /\ response'.op = "settle"
    /\ response'.status = 200

\* the last answer is the failure of a processor call
FailureAnswered ==
    /\ response.op = "settle"
    /\ response.status = 400
    /\ "call" \in DOMAIN response

\* C3: a settle whose grandTotal is at least 50 changes neither rollover nor
\* buckets nor consent when it calls the processor, nor when that call fails;
\* the failure is answered as an error, and once it is answered a retry
\* computes the request (the same idempotency key) that the same call
\* computed right before the failure.
C3_FailedSettleChangesNothing ==
    [][/\ Len(pending') = Len(pending) + 1 =>
            UNCHANGED <<weeklyRolloversCents, counters, consents>>
       /\ \A i \in 1..Len(pending) :
            SettleFailureStep(i) =>
              LET f == pending[i] IN
              /\ UNCHANGED <<weeklyRolloversCents, counters, consents, charges>>
              /\ response'.status = 400
              /\ "error" \in DOMAIN response'
              /\ response'.retry
                   = SettleFrame(f.userId, f.weekEnd, f.tzOffsetMinutes)
      ]_vars
    /\ [](FailureAnswered =>
            SettleFrame(response.userId, response.call.weekEnd,
                        response.call.tzOffsetMinutes) = response.retry)

\* a settle of at least 50 cents that includes a carried amount has failed,
\* and a retry now sends the request the failed call sent
C3_Witness ==
    /\ response.op = "settle"
    /\ response.status = 400
    /\ "call" \in DOMAIN response
    /\ response.call.rollover > 0
    /\ response.call.grandTotal >= STRIPE_MIN_CENTS
    /\ RolloverOf(response.userId) = response.call.rollover
    /\ SettleFrame(response.userId, response.call.weekEnd,
                   response.call.tzOffsetMinutes) = response.call

\* C4 (processor configured, userId given): a settle entered when totalCents
\* plus the rollover is below 50 sends nothing to the processor, answers
\* charged 0 with carriedCents equal to that sum, and stores the sum as the
\* user's rollover.
C4_BelowMinimumCarries ==
    [][(stripe /\ SettleEntryStep /\ SumBefore(EnteredCall) < 50) =>
         LET c == EnteredCall
             sum == SumBefore(c)
         IN /\ pending' = pending
            /\ charges' = charges
            /\ response'.body.settlement =
                 [charged |-> 0, carriedCents |-> sum, reason |-> "below_minimum"]
            /\ c.userId \in DOMAIN weeklyRolloversCents'
            /\ weeklyRolloversCents'[c.userId] = sum
      ]_vars

\* a below-minimum settle that found a rollover has answered, and the
\* rollover is the sum it reported
C4_Witness ==
    /\ response.op = "settle"
    /\ response.status = 200
    /\ response.body.settlement.charged = 0
    /\ response.call.rollover > 0
    /\ response.body.settlement.carriedCents
         = response.call.totalCents + response.call.rollover
    /\ RolloverOf(response.userId) = response.body.settlement.carriedCents

\* C5 (processor configured): a settle entered when totalCents plus the
\* rollover is at least 50 asks the processor for exactly that sum, and when
\* the processor succeeds the answer reports that sum as charged, the
\* processor holds one charge of that sum under the call's key (no other
\* charge was added), and the user's rollover is 0.
C5_ChargesSumAndClearsRollover ==
    [][/\ (stripe /\ SettleEntryStep /\ SumBefore(EnteredCall) >= 50) =>
            /\ Len(pending') = Len(pending) + 1
            /\ EnteredCall.grandTotal = SumBefore(EnteredCall)
            /\ UNCHANGED <<weeklyRolloversCents, charges, response>>
       /\ \A i \in 1..Len(pending) :
            SettleSuccessStep(i) =>
              LET f == pending[i] IN
              /\ response'.body.settlement.charged = f.totalCents + f.rollover
              /\ f.idemKey \in DOMAIN charges'
              /\ charges'[f.idemKey].amount = f.totalCents + f.rollover
              /\ DOMAIN charges' \subseteq DOMAIN charges \cup {f.idemKey}
              /\ \A k \in DOMAIN charges : charges'[k] = charges[k]
              /\ f.userId \in DOMAIN weeklyRolloversCents'
              /\ weeklyRolloversCents'[f.userId] = 0
      ]_vars

\* a below-minimum week was carried and the settle of a week with usage of
\* its own has charged the combined amount
C5_Witness ==
    /\ response.op = "settle"
    /\ response.status = 200
    /\ response.body.settlement.charged > 0
    /\ response.call.rollover > 0
    /\ response.call.totalCents > 0
    /\ response.body.settlement.charged
         = response.call.totalCents + response.call.rollover
    /\ RolloverOf(response.userId) = 0

\* the cents the below-minimum settles since the last charge put aside,
\* week by week
CarriedOf(u) == IF u \in DOMAIN carried THEN carried[u] ELSE << >>

\* C6: the rollover is the total owed and not yet charged: in every state it
\* equals the billable cents of the below-minimum weeks settled since the
\* last successful charge (so settling the same below-minimum week again
\* with no new usage leaves it unchanged).
C6_RolloverIsOwedTotal ==
    \A u \in Users :
        RolloverOf(u) = SumOver(DOMAIN CarriedOf(u), CarriedOf(u))

(***************************************************************************)
(* Usage specification: one user sends tick batches of one or two events   *)
(* (15, 45 or 150 seconds of one site stamped by the server clock, 45      *)
(* seconds of another stamped by the client) while the clock passes from   *)
(* Tuesday (day 5) to Wednesday (day 6).                                   *)
(***************************************************************************)
UsageInstants == {Noon(5), Noon(6)}

UsageSeconds == {15, 45, 150}

UsageEvents ==
    {Event(PornHost, sec, Undefined) : sec \in UsageSeconds}
    \cup {Event(StakeHost, 45, Num(Noon(5)))}

UsageBatches ==
    {<<e>> : e \in UsageEvents} \cup {<<e1, e2>> : e1 \in UsageEvents, e2 \in UsageEvents}

NextUsage ==
    \/ \E t \in UsageInstants : AdvanceClock(t)
    \/ SessionStart("u1", "s1", 0)
    \/ \E b \in UsageBatches :
          Track("u1", "s1", b) /\ StoredMinutes(counters') <= MaxTickMinutes

InitUsage == Init /\ stripe

SpecUsage == InitUsage /\ [][NextUsage]_vars

(***************************************************************************)
(* Usage claims (specification SpecUsage)                                  *)
(***************************************************************************)
\* the category entries of all buckets, named <<userId, day, category>>
Cells ==
    UNION {{<<k[1], k[2], c>> : c \in DOMAIN counters[k].byCategory} :
             k \in DOMAIN counters}

CellEntry(x) == counters[<<x[1], x[2]>>].byCategory[x[3]]

\* C7: whatever chunks the seconds of a (user, day, category) arrived in, the
\* entry holds floor(total / 60) minutes and total mod 60 leftover seconds,
\* total being the sum of the seconds of all addUsage calls for it.
C7_ChunkingInvariance ==
    \A x \in Cells :
        LET total == UsedOf(usedSeconds, x) IN
        /\ CellEntry(x).minutes = total \div 60
        /\ CellEntry(x).seconds = total % 60

\* 210 seconds have arrived for one entry, in three chunks or more
C7_Witness ==
    \E x \in Cells :
        /\ UsedOf(usedSeconds, x) = 210
        /\ CellEntry(x) = [minutes |-> 3, seconds |-> 30]

\* C8: every category entry of every bucket has leftover seconds in 0..59.
C8_LeftoverBelowSixty ==
    \A x \in Cells : CellEntry(x).seconds \in 0..59

\* an entry that has carried a minute keeps 45 leftover seconds
C8_Witness ==
    \E x \in Cells : CellEntry(x).minutes >= 1 /\ CellEntry(x).seconds = 45

(***************************************************************************)
(* Aggregation specification: one user tracks whole minutes on three days  *)
(* of one week and the Monday of the next, stores consent snapshots of     *)
(* several shapes and previews either week under three UTC offsets.        *)
(***************************************************************************)
AggEvents ==
    {Event(PornHost, 60, Num(Noon(4))),     \* Monday
     Event(PornHost, 60, Num(Noon(6))),     \* Wednesday
     Event(PornHost, 60, Num(Noon(10))),    \* Sunday
     Event(PornHost, 60, Num(Noon(11))),    \* Monday of the next week
     Event(StakeHost, 60, Num(Noon(6)))}

AggConsents ==
    {\* porn rate below its floor, gambling rate above its floor
     Snapshot(Obj([porn |-> 1, gambling |-> 0]),
              Obj([porn |-> 10, gambling |-> 1000]),
              Obj([porn |-> TRUE, gambling |-> TRUE])),
     \* legacy scalar grace, a rate of 5.5 cents, no gambling rate, gambling off
     Snapshot(Num(0),
              Obj([porn |-> 55]),
              Obj([porn |-> TRUE, gambling |-> FALSE])),
     \* a snapshot without grace, rates and categoriesOn
     Snapshot(Undefined, Undefined, Undefined)}

AggWeekEnds == {Num(8), Num(17)}    \* a Friday of the first week, the Sunday of the second

AggTzOffsets == {0, 240, -300}

NextAgg ==
    \/ SessionStart("u1", "s1", 0)
    \/ \E c \in AggConsents : Consent("u1", c)
    \/ \E ev \in AggEvents :
          Track("u1", "s1", <<ev>>) /\ StoredMinutes(counters') <= MaxAggMinutes
    \/ \E w \in AggWeekEnds, tz \in AggTzOffsets : Preview("u1", w, tz)

SpecAgg == InitUsage /\ [][NextAgg]_vars

(***************************************************************************)
(* Aggregation claims (specification SpecAgg)                              *)
(***************************************************************************)
\* what the aggregator returns for a user, a weekEnd and an offset
Aggregate(u, w, tz) ==
    LET wb == getWeekBounds(w, tz, now)
    IN collectWeeklyBillableMinutes(u, wb.weekStartUTC, wb.weekEndUTC, tz)

\* the billable minutes it reports for a category (none reported is 0)
ReportedMinutes(agg, c) == IF c \in DOMAIN agg.perCat THEN agg.perCat[c].minutes ELSE 0

\* the seven calendar days, Monday to Sunday, of the local week of the window
WindowDays(w, tz) == LET monday == WeekOf(w, tz, now) IN monday..(monday + 6)

\* whole minutes a user's bucket of a day holds for a category (0 without bucket)
DayMinutes(u, d, c) ==
    IF <<u, d>> \in DOMAIN counters /\ c \in DOMAIN counters[<<u, d>>].byCategory
    THEN counters[<<u, d>>].byCategory[c].minutes
    ELSE 0

\* C9: for every category that is on, the week's billable minutes are the
\* sum over the days of the window of max(0, the day's minutes - grace):
\* grace is taken off each day, not off the week.
C9_GracePerDay ==
    \A u \in Users, w \in AggWeekEnds, tz \in AggTzOffsets, c \in BuiltinCategories :
        LET cons == getConsentSnapshot(u)
            g == GraceOf(cons.grace, c)
            days == WindowDays(w, tz)
        IN IsOn(cons.categoriesOn, c) =>
             ReportedMinutes(Aggregate(u, w, tz), c)
               = SumOver(days, [d \in days |-> Max(0, DayMinutes(u, d, c) - g)])

\* three days of one week hold exactly the grace minute, but for one day
\* that holds one minute more: the preview reports exactly 1 billable minute
C9_Witness ==
    /\ response.op = "preview"
    /\ response.status = 200
    /\ "u1" \notin DOMAIN consents
    /\ DayMinutes("u1", 4, "porn") = 1
    /\ DayMinutes("u1", 6, "porn") = 2
    /\ DayMinutes("u1", 10, "porn") = 1
    /\ response.body.weekEnd = 10
    /\ "porn" \in DOMAIN response.body.perCategory
    /\ response.body.perCategory["porn"].minutes = 1

\* the rate in mills the resolved consent holds for a category (0 if none)
StoredRate(u, c) ==
    LET rates == getConsentSnapshot(u).rates
    IN IF c \in DOMAIN rates THEN rates[c] ELSE 0

\* C10: for every category reported, cents-per-minute is
\* round(max(configured rate, floor) * 100), hence at least the floor (5
\* cents porn, 50 cents gambling); centsTotal is minutes * centsPerMin and
\* totalCents is the sum of the centsTotal.
C10_RateFloorAndTotals ==
    \A u \in Users, w \in AggWeekEnds, tz \in AggTzOffsets :
        LET agg == Aggregate(u, w, tz)
            floorMills == [porn |-> 50, gambling |-> 500]
            floorCents == [porn |-> 5, gambling |-> 50]
        IN /\ \A c \in DOMAIN agg.perCat :
                /\ agg.perCat[c].centsPerMin
                     = (Max(StoredRate(u, c), floorMills[c]) + 5) \div 10
                /\ agg.perCat[c].centsPerMin >= floorCents[c]
                /\ agg.perCat[c].centsTotal
                     = agg.perCat[c].minutes * agg.perCat[c].centsPerMin
           /\ agg.totalCents
                = SumOver(DOMAIN agg.perCat,
                          [c \in DOMAIN agg.perCat |-> agg.perCat[c].centsTotal])

\* the stored porn rate is 1 cent, below the floor, and the preview bills
\* the porn minutes at 5 cents and the gambling minutes at 100
C10_Witness ==
    /\ response.op = "preview"
    /\ response.status = 200
    /\ StoredRate("u1", "porn") = 10
    /\ DOMAIN response.body.perCategory = {"porn", "gambling"}
    /\ response.body.perCategory["porn"].minutes > 0
    /\ response.body.perCategory["porn"].centsPerMin = 5
    /\ response.body.perCategory["gambling"].minutes > 0
    /\ response.body.perCategory["gambling"].centsPerMin = 100
    /\ response.body.totalCents
         = 5 * response.body.perCategory["porn"].minutes
           + 100 * response.body.perCategory["gambling"].minutes

(***************************************************************************)
(* Whole-minute specification: one user sends ticks of 59 seconds of a     *)
(* gambling site stamped on any day of one week (Monday 4 to Sunday 10)    *)
(* and previews that week; no consent is stored.                           *)
(***************************************************************************)
WholeEvents == {Event(StakeHost, 59, Num(Noon(d))) : d \in 4..10}

NextWhole ==
    \/ SessionStart("u1", "s1", 0)
    \/ \E ev \in WholeEvents :
          Track("u1", "s1", <<ev>>) /\ StoredMinutes(counters') <= MaxWholeMinutes
    \/ Preview("u1", Num(10), 0)

SpecWhole == InitUsage /\ [][NextWhole]_vars

\* C11: only whole minutes are billable: under the default rules the cents
\* of the week are fixed by the minutes fields of the week's buckets alone
\* (porn minutes beyond the first of a day at 5 cents, gambling minutes at
\* 50 cents), whatever leftover seconds the buckets hold.
C11_OnlyWholeMinutes ==
    \A u \in Users :
        LET days == WindowDays(Num(10), 0)
        IN Aggregate(u, Num(10), 0).totalCents
             = SumOver(days, [d \in days |->
                                Max(0, DayMinutes(u, d, "porn") - 1) * 5
                                + DayMinutes(u, d, "gambling") * 50])

\* every day of the week holds 59 leftover seconds and no whole minute of
\* gambling, and the preview of the week bills 0 cents
C11_Witness ==
    /\ \A d \in 4..10 :
          /\ <<"u1", d>> \in DOMAIN counters
          /\ counters[<<"u1", d>>].byCategory["gambling"]
               = [minutes |-> 0, seconds |-> 59]
    /\ response.op = "preview"
    /\ response.status = 200
    /\ response.body.totalCents = 0
    /\ response.body.wouldChargeCents = 0

(***************************************************************************)
(* Billing specification: one user sends tick batches of one minute of     *)
(* each category on one day, may store a consent that switches gambling    *)
(* off, previews and settles the week of the usage or the week after it.   *)
(***************************************************************************)
BillBatches ==
    {<<Event(PornHost, 60, Num(Noon(5))), Event(StakeHost, 60, Num(Noon(5)))>>}

BillConsents ==
    {Snapshot(Obj([porn |-> 0, gambling |-> 0]),
              Obj([porn |-> 250, gambling |-> 500]),
              Obj([porn |-> TRUE, gambling |-> FALSE]))}

BillWeekEnds == {Num(10), Num(17)}

NextBill ==
    \/ SessionStart("u1", "s1", 0)
    \/ \E c \in BillConsents : Consent("u1", c)
    \/ \E b \in BillBatches :
          Track("u1", "s1", b) /\ StoredMinutes(counters') <= 2 * MaxBillBatches
    \/ \E w \in BillWeekEnds : Preview("u1", w, 0)
    \/ \E w \in BillWeekEnds : SettleWeek("u1", w, 0) /\ Len(pending') <= MaxInflight
    \/ \E i \in 1..Len(pending) :
          ProcessorSucceeds(i) /\ Cardinality(DOMAIN charges') <= MaxCharges

SpecBill == InitUsage /\ [][NextBill]_vars

(***************************************************************************)
(* Billing claims (specification SpecBill)                                 *)
(***************************************************************************)
\* the categories whose flag in the resolved consent is false
SwitchedOff(u) ==
    LET on == getConsentSnapshot(u).categoriesOn
    IN {c \in DOMAIN on : on[c] = FALSE}

\* the cents of a week that come from the categories not switched off
CentsOfOthers(u, w, tz) ==
    LET cons == getConsentSnapshot(u)
        days == WindowDays(w, tz)
        cats == BuiltinCategories \ SwitchedOff(u)
    IN SumOver(cats,
               [c \in cats |->
                  CentsPerMin(cons.rates, c)
                  * SumOver(days, [d \in days |->
                                     Max(0, DayMinutes(u, d, c)
                                            - GraceOf(cons.grace, c))])])

\* C12: a category whose categoriesOn flag is false is absent from the
\* weekly aggregate and adds no cent to it, whatever usage is recorded for
\* it; the same holds of the preview last answered and of the totals of a
\* settle call when it is entered.
C12_OffCategoryBillsNothing ==
    /\ [](\A u \in Users, w \in BillWeekEnds :
            LET agg == Aggregate(u, w, 0)
            IN /\ DOMAIN agg.perCat \cap SwitchedOff(u) = {}
               /\ agg.totalCents = CentsOfOthers(u, w, 0))
    /\ []((response.op = "preview" /\ response.status = 200) =>
            /\ DOMAIN response.body.perCategory \cap SwitchedOff(response.userId) = {}
            /\ response.body.totalCents
                 = CentsOfOthers(response.userId, response.query.weekEnd,
                                 response.query.tzOffsetMinutes))
    /\ [][SettleEntryStep =>
            LET c == EnteredCall
            IN /\ DOMAIN c.perCat \cap SwitchedOff(c.userId) = {}
               /\ c.totalCents = CentsOfOthers(c.userId, c.weekEnd, c.tzOffsetMinutes)
               /\ c.grandTotal = c.totalCents + RolloverOf(c.userId)
         ]_vars

\* gambling is switched off and a minute of it is recorded; a settle has
\* charged the two porn minutes (50 cents) and nothing for gambling
C12_Witness ==
    /\ SwitchedOff("u1") = {"gambling"}
    /\ DayMinutes("u1", 5, "gambling") > 0
    /\ response.op = "settle"
    /\ response.status = 200
    /\ DOMAIN response.call.perCat = {"porn"}
    /\ response.body.settlement.charged = 50
    /\ response.call.rollover = 0

\* the last answer is a preview of the request (u, w, tz)
PreviewAnswered(u, w, tz) ==
    /\ response.op = "preview"
    /\ response.status = 200
    /\ response.userId = u
    /\ response.query = [weekEnd |-> w, tzOffsetMinutes |-> tz]

\* C13: a settle entered right after a preview of the same (userId,
\* weekEnd, tzOffsetMinutes), no tick in between: if it answers at once it
\* charges 0, which is the preview's wouldChargeCents, and leaves the
\* preview's wouldCarryCents as rollover; if it calls the processor it asks
\* for the preview's wouldChargeCents while wouldCarryCents is 0, and when
\* the processor succeeds exactly the amount asked is charged and the
\* rollover is 0.
C13_SettleMatchesPreview ==
    [][/\ (SettleEntryStep
           /\ PreviewAnswered(EnteredCall.userId, EnteredCall.weekEnd,
                              EnteredCall.tzOffsetMinutes)) =>
            LET c == EnteredCall
                p == response.body
            IN IF pending' = pending
               THEN /\ response'.body.settlement.charged = 0
                    /\ p.wouldChargeCents = 0
                    /\ c.userId \in DOMAIN weeklyRolloversCents'
                    /\ weeklyRolloversCents'[c.userId] = p.wouldCarryCents
               ELSE /\ c.grandTotal = p.wouldChargeCents
                    /\ p.wouldCarryCents = 0
       /\ \A i \in 1..Len(pending) :
            SettleSuccessStep(i) =>
              LET f == pending[i]
              IN /\ response'.body.settlement.charged = f.grandTotal
                 /\ f.idemKey \in DOMAIN charges'
                 /\ charges'[f.idemKey].amount = f.grandTotal
                 /\ weeklyRolloversCents'[f.userId] = 0
      ]_vars

\* a preview that found a rollover announced a charge of at least 50 cents
\* and no carry, and the settle entered after it asks the processor for
\* exactly that amount
C13_Witness ==
    /\ response.op = "preview"
    /\ response.status = 200
    /\ response.body.rolloverCents > 0
    /\ response.body.wouldChargeCents >= STRIPE_MIN_CENTS
    /\ response.body.wouldCarryCents = 0
    /\ \E i \in 1..Len(pending) :
          /\ PreviewAnswered(pending[i].userId, pending[i].weekEnd,
                             pending[i].tzOffsetMinutes)
          /\ pending[i].grandTotal = response.body.wouldChargeCents

(***************************************************************************)
(* Read specification: while the clock passes from Tuesday noon to Sunday  *)
(* noon, Sunday 21:00 (Monday already at UTC+4) and Monday noon, one user  *)
(* sends tick batches (a minute of a flagged site, or a minute of a site   *)
(* of no category, stamped by the server clock) and reads: today's         *)
(* counters, previews and the dashboard.                                   *)
(***************************************************************************)
ReadInstants == {Noon(10), Noon(10) + 9 * 60 * MsPerMinute, Noon(11)}

ReadBatches ==
    {<<Event(StakeHost, 60, Undefined)>>,
     <<Event(<<"example", ".", "com">>, 60, Undefined)>>}

ReadPreviews == {<<Undefined, 240>>, <<Num(10), 0>>}

ReadTzOffsets == {0, 240}

NextRead ==
    \/ \E t \in ReadInstants : AdvanceClock(t)
    \/ SessionStart("u1", "s1", 0)
    \/ \E b \in ReadBatches :
          Track("u1", "s1", b) /\ StoredMinutes(counters') <= MaxReadMinutes
    \/ CountersToday("u1")
    \/ \E q \in ReadPreviews : Preview("u1", q[1], q[2])
    \/ \E tz \in ReadTzOffsets : Dashboard("u1", tz)

SpecRead == InitUsage /\ [][NextRead]_vars

(***************************************************************************)
(* Read claims (specification SpecRead)                                    *)
(***************************************************************************)
\* an answered preview or dashboard read
IsReadAnswer(r) == r.op \in {"preview", "dashboard"} /\ r.status = 200

\* a step that answers a preview or a dashboard read
ReadStep == IsReadAnswer(response') /\ response' # response

\* a read answered right after a read of the same endpoint with the same
\* arguments; no request that writes a table lies between the two, because
\* every request overwrites `response`
RepeatedReadStep ==
    /\ ReadStep
    /\ IsReadAnswer(response)
    /\ response'.op = response.op
    /\ response'.userId = response.userId
    /\ response'.query = response.query

\* the stored tables a read may not touch
ReadTablesUnchanged ==
    UNCHANGED <<counters, consents, weeklyRolloversCents, sessions>>

\* the calendar day of an instant at an offset from UTC
LocalDay(t, tzOffsetMinutes) == dayKey(t + tzOffsetMinutes * MsPerMinute)

\* the two reads of a repeated read fall on the same calendar day, in UTC and
\* at the offset of the request
SameCalendarDay ==
    /\ dayKey(response'.at) = dayKey(response.at)
    /\ LocalDay(response'.at, response'.query.tzOffsetMinutes)
         = LocalDay(response.at, response.query.tzOffsetMinutes)

\* C14 as stated: a preview or dashboard read (each runs the weekly
\* aggregator) leaves the counters, consent, rollover and session tables
\* unchanged, and a repeated read returns the same result whenever those
\* tables are unchanged in between.
C14_ReadsDependOnTablesOnly ==
    /\ [][ReadStep => ReadTablesUnchanged]_vars
    /\ [][RepeatedReadStep => response'.body = response.body]_vars

\* C14 amended: a preview or dashboard read leaves the counters, consent,
\* rollover and session tables unchanged, and a repeated read returns the
\* same result whenever those tables are unchanged in between and either the
\* read is a preview that names its weekEnd or both reads fall on the same
\* calendar day in UTC and at the request's offset.
C14_ReadsArePure ==
    /\ [][ReadStep => ReadTablesUnchanged]_vars
    /\ [][(/\ RepeatedReadStep
           /\ \/ response'.op = "preview" /\ response'.query.weekEnd.t = "num"
              \/ SameCalendarDay)
          => response'.body = response.body]_vars

\* a dashboard answered earlier the same day over stored usage, which a
\* dashboard read now would answer the same way
C14_Witness ==
    /\ response.op = "dashboard" /\ response.status = 200
    /\ response.at < now
    /\ dayKey(response.at) = dayKey(now)
    /\ \E k \in DOMAIN counters : counters[k].byCategory["gambling"].minutes > 0
    /\ response.body.wallet.totalCents > 0
    /\ DashboardBody(response.userId, response.query.tzOffsetMinutes) = response.body

\* addUsage has been given seconds for the user and day of bucket key k in
\* this step
UsageRecordedFor(k) ==
    \E cat \in BuiltinCategories :
       UsedOf(usedSeconds', <<k[1], k[2], cat>>) > UsedOf(usedSeconds, <<k[1], k[2], cat>>)

\* C15: a usage bucket is never deleted, and it is created or changed only in
\* a step in which addUsage records usage for its user and day; today
\* reads, previews, dashboard reads and ticks without an accepted event
\* leave the stored buckets as they are.
C15_BucketsOnlyFromUsage ==
    [][/\ DOMAIN counters \subseteq DOMAIN counters'
       /\ \A k \in DOMAIN counters' :
            (k \notin DOMAIN counters \/ counters'[k] # counters[k])
              => UsageRecordedFor(k)]_vars

(***************************************************************************)
(* addUsage called directly (specification SpecAddUsage)                   *)
(***************************************************************************)
\* one call addUsage({ userId, domain, category, seconds }) at the current
\* instant; `response` keeps the arguments of the call
AddUsageCall(userId, domain, category, seconds) ==
    LET key == <<userId, dayKey(now), category>> IN
    /\ counters' = addUsage(counters, userId, domain, category, seconds, now)
    /\ usedSeconds' = IF userId # "" /\ domain # << >> /\ category # ""
                      THEN MapSet(usedSeconds, key, UsedOf(usedSeconds, key) + seconds)
                      ELSE usedSeconds
    /\ response' = [op |-> "addUsage", status |-> 200,
                    call |-> [userId |-> userId, domain |-> domain,
                              category |-> category, seconds |-> seconds]]
    /\ UNCHANGED <<now, stripe, ext, consents, sessions, weeklyRolloversCents,
                   pending, charges, carried>>

\* the smallest seconds counter of the stored buckets (0 when none is below)
LowestSeconds(cs) ==
    LET below == {cs[k].byCategory[c].seconds : k \in DOMAIN cs, c \in BuiltinCategories}
                   \cup {0}
    IN CHOOSE m \in below : \A x \in below : m <= x

CallInstants == {Noon(6)}
CallUsers == {"", "u1"}
CallDomains == {<< >>, PornHost}
CallCategories == {"", "porn"}
CallSeconds == {-5, 0, 60}

NextAddUsage ==
    \/ \E t \in CallInstants : AdvanceClock(t)
    \/ \E u \in CallUsers, dom \in CallDomains, cat \in CallCategories, n \in CallSeconds :
          /\ AddUsageCall(u, dom, cat, n)
          /\ StoredMinutes(counters') <= MaxCallMinutes
          /\ LowestSeconds(counters') >= -MaxNegativeSeconds

SpecAddUsage == InitUsage /\ [][NextAddUsage]_vars

\* the arguments addUsage must ignore
IgnoredCall(call) ==
    call.userId = "" \/ call.domain = << >> \/ call.category = "" \/ call.seconds <= 0

\* C16: addUsage called with an empty userId, domain or category, or with
\* seconds that are zero or negative, creates no bucket and changes no
\* counter.
C16_AddUsageIgnoresBadInput ==
    [][(response'.op = "addUsage" /\ IgnoredCall(response'.call))
         => counters' = counters]_vars

(***************************************************************************)
(* getWeekBounds called directly (specification SpecWeek)                  *)
(***************************************************************************)
\* one call getWeekBounds({ weekEndStr, tzOffsetMinutes }); `response` keeps
\* the arguments, the instant of the call and the returned record
GetWeekBoundsCall(weekEndStr, tzOffsetMinutes) ==
    /\ response' = [op |-> "getWeekBounds", status |-> 200,
                    call |-> [weekEndStr |-> weekEndStr,
                              tzOffsetMinutes |-> tzOffsetMinutes],
                    at |-> now,
                    body |-> getWeekBounds(weekEndStr, tzOffsetMinutes, now)]
    /\ UNCHANGED <<now, stripe, ext, consents, sessions, counters, weeklyRolloversCents,
                   pending, charges, usedSeconds, carried>>

MsPerHour == 60 * MsPerMinute

WeekInstants ==
    {DayStart(10) + 22 * MsPerHour, DayStart(11) + 2 * MsPerHour, Noon(11), Noon(13)}
WeekEndStrs == {Undefined} \cup {Num(d) : d \in 4..17}
WeekTzOffsets == {-300, 0, 240, 330, 720}

NextWeek ==
    \/ \E t \in WeekInstants : AdvanceClock(t)
    \/ \E w \in WeekEndStrs, tz \in WeekTzOffsets : GetWeekBoundsCall(w, tz)

SpecWeek == InitUsage /\ [][NextWeek]_vars

\* getWeekBounds has answered
WeekAnswered == response.op = "getWeekBounds"

\* C17: whatever the offset, getWeekBounds given a week-end date that is a
\* Sunday returns that date as weekEndStr and the Monday six days before it
\* as weekStartStr.
C17_SundayKeepsItsWeek ==
    (/\ WeekAnswered
     /\ response.call.weekEndStr.t = "num"
     /\ GetDay(DayStart(response.call.weekEndStr.n)) = 0)
      => /\ response.body.weekEndStr = response.call.weekEndStr.n
         /\ response.body.weekStartStr = response.call.weekEndStr.n - 6

\* an instant shifted from UTC to local time at the offset of the call
LocalInstant(t) == t + response.call.tzOffsetMinutes * MsPerMinute

\* C18: the window getWeekBounds returns starts at 00:00:00.000 of a Monday
\* and ends at 23:59:59.999 of a Sunday in local time, and is 7 days less one
\* millisecond long, whatever the reference instant or week-end date and the
\* offset.
C18_WindowIsLocalMondayToSunday ==
    WeekAnswered =>
      /\ GetDay(LocalInstant(response.body.weekStartUTC)) = 1
      /\ LocalInstant(response.body.weekStartUTC) % MsPerDay = 0
      /\ GetDay(LocalInstant(response.body.weekEndUTC)) = 0
      /\ LocalInstant(response.body.weekEndUTC) % MsPerDay = MsPerDay - 1
      /\ response.body.weekEndUTC - response.body.weekStartUTC = 7 * MsPerDay - 1

\* the window of the current week asked at 02:00 UTC on Monday 1970-01-12 by
\* a client five hours behind UTC, for whom it is still Sunday: the week that
\* started on local Monday 1970-01-05
C18_Witness ==
    /\ WeekAnswered
    /\ response.call.weekEndStr = Undefined
    /\ response.call.tzOffsetMinutes = -300
    /\ response.at = DayStart(11) + 2 * MsPerHour
    /\ response.body.weekStartUTC = DayStart(4) + 300 * MsPerMinute
    /\ response.body.weekEndUTC = DayStart(11) + 300 * MsPerMinute - 1

(***************************************************************************)
(* Consent resolution (specification SpecConsent)                          *)
(***************************************************************************)
\* one call getConsentSnapshot(userId); `response` keeps the returned record
GetConsentSnapshotCall(userId) ==
    /\ response' = [op |-> "getConsentSnapshot", status |-> 200, userId |-> userId,
                    body |-> getConsentSnapshot(userId)]
    /\ UNCHANGED <<now, stripe, ext, consents, sessions, counters, weeklyRolloversCents,
                   pending, charges, usedSeconds, carried>>

\* every combination of an absent or present grace (legacy numbers 0 and 1,
\* or an object), rates and categoriesOn
ConsentSnapshots ==
    {Snapshot(g, r, on) :
       g \in {Undefined, Num(0), Num(1), Obj([porn |-> 2, gambling |-> 1])},
       r \in {Undefined, Obj([porn |-> 250, gambling |-> 700])},
       on \in {Undefined, Obj([porn |-> TRUE, gambling |-> FALSE])}}

\* two minutes of each category on 1970-01-06
ConsentBatches ==
    {<<Event(PornHost, 120, Num(Noon(5))), Event(StakeHost, 120, Num(Noon(5)))>>}

NextConsent ==
    \/ SessionStart("u1", "s1", 0)
    \/ \E c \in ConsentSnapshots : Consent("u1", c)
    \/ \E b \in ConsentBatches :
          Track("u1", "s1", b) /\ StoredMinutes(counters') <= 4 * MaxConsentBatches
    \/ GetConsentSnapshotCall("u1")
    \/ Preview("u1", Num(10), 0)

SpecConsent == InitUsage /\ [][NextConsent]_vars

\* getConsentSnapshot has answered
ConsentResolved == response.op = "getConsentSnapshot"

\* C19: without a stored snapshot getConsentSnapshot returns grace 1 (porn)
\* and 0 (gambling), rates 0.05 and 0.50 and both categories on; with a stored
\* snapshot each of grace, rates and categoriesOn that is absent takes that
\* default on its own, and each that is present as an object is returned as
\* stored (a bare-number grace is the subject of C20).
C19_DefaultsPerField ==
    ConsentResolved =>
      LET defaults == [grace |-> [porn |-> 1, gambling |-> 0],
                       rates |-> [porn |-> 50, gambling |-> 500],
                       categoriesOn |-> [porn |-> TRUE, gambling |-> TRUE]]
          u == response.userId
      IN IF u \notin DOMAIN consents
         THEN response.body = defaults
         ELSE \A f \in {"grace", "rates", "categoriesOn"} :
                /\ consents[u][f] = Undefined => response.body[f] = defaults[f]
                /\ consents[u][f].t = "obj" => response.body[f] = consents[u][f].v

\* a snapshot that holds rates only: the rates come back as stored, grace and
\* categoriesOn as their defaults
C19_Witness ==
    /\ ConsentResolved
    /\ response.userId \in DOMAIN consents
    /\ consents[response.userId].grace = Undefined
    /\ consents[response.userId].rates = Obj([porn |-> 250, gambling |-> 700])
    /\ consents[response.userId].categoriesOn = Undefined
    /\ response.body.rates = [porn |-> 250, gambling |-> 700]
    /\ response.body.grace = [porn |-> 1, gambling |-> 0]

\* the billable minutes a preview body reports for a category (none is 0)
PreviewedMinutes(body, c) ==
    IF c \in DOMAIN body.perCategory THEN body.perCategory[c].minutes ELSE 0

\* the stored snapshot of a user leaves a category on
StoredOn(u, c) ==
    \/ consents[u].categoriesOn = Undefined
    \/ /\ consents[u].categoriesOn.t = "obj"
       /\ c \in DOMAIN consents[u].categoriesOn.v
       /\ consents[u].categoriesOn.v[c]

\* C20: a stored grace that is a bare number n, 0 included, resolves to grace
\* n for porn and for gambling, and a preview then takes n minutes off each
\* day's minutes of each category that is on.
C20_LegacyGraceBroadcast ==
    /\ (/\ ConsentResolved
        /\ response.userId \in DOMAIN consents
        /\ consents[response.userId].grace.t = "num")
         => response.body.grace = [porn |-> consents[response.userId].grace.n,
                                   gambling |-> consents[response.userId].grace.n]
    /\ (/\ response.op = "preview" /\ response.status = 200
        /\ response.userId \in DOMAIN consents
        /\ consents[response.userId].grace.t = "num")
         => \A c \in BuiltinCategories :
              StoredOn(response.userId, c) =>
                LET days == WindowDays(response.query.weekEnd,
                                       response.query.tzOffsetMinutes)
                    n == consents[response.userId].grace.n
                IN PreviewedMinutes(response.body, c)
                     = SumOver(days, [d \in days |->
                                        Max(0, DayMinutes(response.userId, d, c) - n)])

\* grace stored as the bare number 0 and two minutes of each category on one
\* day: the preview bills both minutes of both categories
C20_Witness ==
    /\ response.op = "preview" /\ response.status = 200
    /\ response.userId \in DOMAIN consents
    /\ consents[response.userId].grace = Num(0)
    /\ consents[response.userId].categoriesOn = Undefined
    /\ DayMinutes(response.userId, 5, "porn") = 2
    /\ DayMinutes(response.userId, 5, "gambling") = 2
    /\ PreviewedMinutes(response.body, "porn") = 2
    /\ PreviewedMinutes(response.body, "gambling") = 2

(***************************************************************************)
(* categorizeDomain called directly (specification SpecCategorize)         *)
(***************************************************************************)
\* one call categorizeDomain(host); `response` keeps the host and the result
\* ("" for null)
CategorizeDomainCall(host) ==
    /\ response' = [op |-> "categorizeDomain", status |-> 200,
                    call |-> [host |-> host],
                    body |-> categorizeDomain(host)]
    /\ UNCHANGED <<now, stripe, ext, consents, sessions, counters, weeklyRolloversCents,
                   pending, charges, usedSeconds, carried>>

\* what stands before the name, the name, and what stands after it
HostPrefixes ==
    {<< >>, <<"www", ".">>, <<"WWW", ".">>, <<"sub", ".">>, <<"not">>, <<"www">>,
     <<"www", ".", "sub", ".">>}
HostNames ==
    {<<"pornhub">>, <<"PornHub">>, <<"stake">>, <<"example">>, <<"pornhub", "s">>}
HostSuffixes ==
    {<< >>, <<".">>, <<".", "com">>, <<".", "_">>, <<".", "co", ".", "uk">>,
     <<".", "stake", ".", "com">>}
CategorizeHosts ==
    {p \o n \o x : p \in HostPrefixes, n \in HostNames, x \in HostSuffixes}

NextCategorize == \E host \in CategorizeHosts : CategorizeDomainCall(host)

SpecCategorize == InitUsage /\ [][NextCategorize]_vars

\* h is <seed>.<suffix> or ends with .<seed>.<suffix> for one of the seeds
SeedAtBoundary(seeds, h) ==
    \E seed \in seeds :
       \/ Len(h) >= 3 /\ SubSeq(h, 1, 2) = <<seed, ".">>
       \/ \E i \in 1..Len(h) :
             Len(h) >= i + 3 /\ SubSeq(h, i, i + 2) = <<".", seed, ".">>

\* C21: categorizeDomain gives a host a category only if the host, in lower
\* case and without a leading "www.", is <seed>.<suffix> or ends with
\* .<seed>.<suffix> for a seed of that category; notpornhub.com gets none,
\* www.pornhub.com and sub.pornhub.com get porn.
C21_SeedAtLabelBoundary ==
    response.op = "categorizeDomain" =>
      LET h == StripWww(ToLowerCase(response.call.host)) IN
      /\ response.body = "porn" => SeedAtBoundary(PORN_SEEDS, h)
      /\ response.body = "gambling" => SeedAtBoundary(GAMBLING_SEEDS, h)
      /\ response.call.host = <<"not", "pornhub", ".", "com">> => response.body = ""
      /\ response.call.host = <<"www", ".", "pornhub", ".", "com">>
           => response.body = "porn"
      /\ response.call.host = <<"sub", ".", "pornhub", ".", "com">>
           => response.body = "porn"

\* notpornhub.com has been categorized, as nothing
C21_Witness ==
    /\ response.op = "categorizeDomain"
    /\ response.call.host = <<"not", "pornhub", ".", "com">>
    /\ response.body = ""

(***************************************************************************)
(* Tick batches with invalid events (specification SpecBatch)              *)
(***************************************************************************)
\* a countable event, and events of each invalid kind: null, a domain that is
\* not a string, no domain and no url, a host of no category, zero and
\* negative seconds
BatchEvents ==
    {Event(PornHost, 60, Undefined),
     NullEvent,
     [Event(<< >>, 60, Undefined) EXCEPT !.domain = NonStringDomain],
     Event(<< >>, 60, Undefined),
     Event(<<"example", ".", "com">>, 60, Undefined),
     Event(StakeHost, 0, Undefined),
     Event(StakeHost, -60, Undefined)}

TickBatches ==
    {<<e>> : e \in BatchEvents} \cup {<<e, f>> : e, f \in BatchEvents}

NextBatch ==
    \/ SessionStart("u1", "s1", 0)
    \/ \E b \in TickBatches :
          Track("u1", "s1", b) /\ StoredMinutes(counters') <= MaxBatchMinutes

SpecBatch == InitUsage /\ [][NextBatch]_vars

\* the event can be counted: it is not null, names a host as a string that
\* has a category (or brings its own), and has seconds above zero
ValidEvent(ev) ==
    /\ ~IsNullEvent(ev)
    /\ ev.domain # NonStringDomain
    /\ (ev.domain # << >> \/ ev.url # << >>)
    /\ (ev.category # "" \/ categorizeDomain(EventDomain(ev)) # "")
    /\ ev.seconds > 0

\* the seconds the valid events of a batch hold for a usage key
ValidSeconds(events, key) ==
    LET valid == {i \in 1..Len(events) :
                    /\ ValidEvent(events[i])
                    /\ key = <<"u1", dayKey(EventTs(events[i], now)),
                               EventCategory(events[i])>>}
    IN SumOver(valid, [i \in valid |-> events[i].seconds])

\* a step in which a batch of a known session has been handled
TickStep ==
    /\ response'.op = "track"
    /\ response'.status # 400
    /\ (response' # response \/ counters' # counters \/ usedSeconds' # usedSeconds)

\* C22: a batch with invalid events is answered without failure, every valid
\* event of it is counted, and `accepted` is the number of its valid events.
C22_InvalidEventsAreSkipped ==
    [][TickStep =>
         LET events == response'.call.events IN
         /\ response'.status = 200
         /\ response'.accepted
              = Cardinality({i \in 1..Len(events) : ValidEvent(events[i])})
         /\ \A key \in DOMAIN usedSeconds' \cup DOMAIN usedSeconds :
              UsedOf(usedSeconds', key)
                = UsedOf(usedSeconds, key) + ValidSeconds(events, key)]_vars

(***************************************************************************)
(* No payment processor configured (specification SpecUnconfigured)        *)
(***************************************************************************)
InitUnconfigured == Init /\ ~stripe

\* one minute of either category on the Tuesday of either week
UnconfiguredEvents ==
    {Event(h, 60, Num(Noon(d))) : h \in {PornHost, StakeHost}, d \in {5, 12}}

UnconfiguredWeekEnds == {Num(10), Num(17)}

NextUnconfigured ==
    \/ SessionStart("u1", "s1", 0)
    \/ \E ev \in UnconfiguredEvents :
          Track("u1", "s1", <<ev>>) /\ StoredMinutes(counters') <= MaxUnconfiguredMinutes
    \/ \E w \in UnconfiguredWeekEnds : SettleWeek("u1", w, 0)
    \/ \E w \in UnconfiguredWeekEnds : Preview("u1", w, 0)

SpecUnconfigured == InitUnconfigured /\ [][NextUnconfigured]_vars

\* cents the stored usage of a week amounts to under the default rules: porn
\* 1 free minute a day at 5 cents, gambling none at 50 cents
DefaultWeekCents(u, w, tz) ==
    LET days == WindowDays(w, tz)
    IN SumOver(days, [d \in days |->
                        Max(0, DayMinutes(u, d, "porn") - 1) * 5
                          + DayMinutes(u, d, "gambling") * 50])

\* C23: without a configured processor a settle request is answered with an
\* error and leaves rollover, counters and consent as they are, whatever the
\* total, while a preview still answers with the computed totals.
C23_UnconfiguredSettleChangesNothing ==
    /\ [][(~stripe /\ response'.op = "settle")
            => /\ response'.status = 500
               /\ UNCHANGED <<weeklyRolloversCents, counters, consents>>]_vars
    /\ [](( /\ ~stripe
            /\ response.op = "preview")
            => /\ response.status = 200
               /\ response.body.totalCents
                    = DefaultWeekCents(response.userId, response.query.weekEnd,
                                       response.query.tzOffsetMinutes)
               /\ response.body.wouldCarryCents + response.body.wouldChargeCents
                    = response.body.totalCents)

\* a settle refused while the week holds usage worth less than the minimum:
\* nothing has been carried
C23_Witness ==
    /\ ~stripe
    /\ response.op = "settle"
    /\ response.status = 500
    /\ DefaultWeekCents("u1", Num(10), 0) \in 1..(STRIPE_MIN_CENTS - 1)
    /\ RolloverOf("u1") = 0

(***************************************************************************)
(* Two users (specification SpecTwoUsers)                                  *)
(***************************************************************************)
\* the session each user opens
SessionOf == [u1 |-> "s1", u2 |-> "s2"]

\* u1 sends porn minutes (5 cents each without grace), u2 gambling minutes
\* (50 cents each)
TwoUserEvents ==
    [u1 |-> Event(PornHost, 60, Num(Noon(5))),
     u2 |-> Event(StakeHost, 60, Num(Noon(5)))]

TwoUserConsents ==
    {Snapshot(Num(0), Undefined, Obj([porn |-> TRUE, gambling |-> TRUE]))}

NextTwoUsers ==
    \/ \E u \in Users : SessionStart(u, SessionOf[u], 0)
    \/ \E u \in Users, c \in TwoUserConsents : Consent(u, c)
    \/ \E u \in Users :
          /\ Track(u, SessionOf[u], <<TwoUserEvents[u]>>)
          /\ StoredMinutes(counters') <= MaxTwoUserMinutes
    \/ \E u \in Users : Preview(u, Num(10), 0)
    \/ \E u \in Users :
          /\ SettleWeek(u, Num(10), 0)
          /\ Len(pending') <= MaxInflight
          /\ \A b \in DOMAIN weeklyRolloversCents' :
                weeklyRolloversCents'[b] <= MaxTwoUserRollover
    \/ \E i \in 1..Len(pending) :
          ProcessorSucceeds(i) /\ Cardinality(DOMAIN charges') <= MaxCharges
    \/ \E i \in 1..Len(pending) : ProcessorFails(i)

SpecTwoUsers == InitUsage /\ [][NextTwoUsers]_vars

\* the step leaves the usage buckets, the consent snapshot and the rollover
\* of user b as they are
DataUnchanged(b) ==
    /\ \A k \in DOMAIN counters \cup DOMAIN counters' :
          k[1] = b => /\ k \in DOMAIN counters
                      /\ k \in DOMAIN counters'
                      /\ counters'[k] = counters[k]
    /\ (b \in DOMAIN consents) = (b \in DOMAIN consents')
    /\ b \in DOMAIN consents => consents'[b] = consents[b]
    /\ (b \in DOMAIN weeklyRolloversCents) = (b \in DOMAIN weeklyRolloversCents')
    /\ b \in DOMAIN weeklyRolloversCents
         => weeklyRolloversCents'[b] = weeklyRolloversCents[b]

\* C24: a request made for one user, answered well or with an error,
\* changes no other user's usage buckets, consent snapshot or rollover: what
\* a step changes belongs to the user the answered request names.
C24_OtherUsersUntouched ==
    [][\A b \in Users :
         DataUnchanged(b)
           \/ ("userId" \in DOMAIN response' /\ response'.userId = b)]_vars

\* u2's week has been charged while u1 keeps a bucket, a consent snapshot
\* and a carried rollover of its own
C24_Witness ==
    /\ response.op = "settle" /\ response.status = 200
    /\ response.userId = "u2"
    /\ response.body.settlement.charged > 0
    /\ RolloverOf("u1") > 0
    /\ "u1" \in DOMAIN consents
    /\ DayMinutes("u1", 5, "porn") = 1
    /\ DayMinutes("u2", 5, "gambling") = 1

(***************************************************************************)
(* Ticks interleaved with reads and settles (specification SpecCarry)      *)
(* Every handler of the server runs to its first `await` or to its end     *)
(* before another request is served; addUsage and the track, preview and   *)
(* dashboard handlers hold no `await`, the settle handler holds one, at     *)
(* the call of the processor.                                              *)
(***************************************************************************)
\* gambling ticks of 45 and 90 seconds on Tuesday 1970-01-06
CarryEvents ==
    {Event(StakeHost, 45, Num(Noon(5))), Event(StakeHost, 90, Num(Noon(5)))}

NextCarry ==
    \/ SessionStart("u1", "s1", 0)
    \/ \E ev \in CarryEvents :
          Track("u1", "s1", <<ev>>) /\ StoredMinutes(counters') <= MaxCarryMinutes
    \/ Preview("u1", Num(10), 0)
    \/ Dashboard("u1", 0)
    \/ SettleWeek("u1", Num(10), 0) /\ Len(pending') <= MaxInflight
    \/ \E i \in 1..Len(pending) :
          ProcessorSucceeds(i) /\ Cardinality(DOMAIN charges') <= MaxCharges

SpecCarry == InitUsage /\ [][NextCarry]_vars

\* whole gambling minutes in the seconds addUsage was given for a user's day
GivenGamblingMinutes(u, d) == UsedOf(usedSeconds, <<u, d, "gambling">>) \div 60

\* gambling cents of the week ending on day 10 by the seconds given (no
\* grace, 50 cents a minute)
GivenWeekCents(u) ==
    SumOver(4..10, [d \in 4..10 |-> GivenGamblingMinutes(u, d) * 50])

\* C25: however ticks interleave with previews, dashboard reads and settles
\* of the same user, no bucket is ever left with 60 or more leftover seconds
\* for a reader to find: every preview, dashboard and settle totals the
\* whole minutes of all the seconds given so far.
C25_ReadersSeeCarriedMinutes ==
    /\ [](\A k \in DOMAIN counters : \A c \in DOMAIN counters[k].byCategory :
             counters[k].byCategory[c].seconds < 60)
    /\ []((response.op = "preview" /\ response.status = 200)
             => response.body.totalCents = GivenWeekCents(response.userId))
    /\ []((response.op = "dashboard" /\ response.status = 200)
             => response.body.wallet.totalCents = GivenWeekCents(response.userId))
    /\ [][Len(pending') > Len(pending)
             => pending'[Len(pending')].totalCents
                  = GivenWeekCents(pending'[Len(pending')].userId)]_vars

\* 135 seconds given in two ticks and a settle waiting for the processor in
\* between: the preview bills the two whole minutes
C25_Witness ==
    /\ response.op = "preview" /\ response.status = 200
    /\ UsedOf(usedSeconds, <<"u1", 5, "gambling">>) = 135
    /\ counters[<<"u1", 5>>].byCategory["gambling"] = [minutes |-> 2, seconds |-> 15]
    /\ Len(pending) = 1
    /\ response.body.totalCents = 100

(***************************************************************************)
(* Overlapping settles (specification SpecOverlap)                         *)
(* One user under the default rules: 7 porn minutes in the week ending on  *)
(* Sunday 1970-01-04 (6 billable, 30 cents, below the minimum) and         *)
(* gambling minutes in the two weeks after it (50 cents each).  The first  *)
(* Each day is ticked once, and the first week is settled                  *)
(* before any other settle has written the rollover, so a positive         *)
(* rollover is stored once; the later weeks are settled in any order and   *)
(* may wait for the processor together.                                    *)
(***************************************************************************)
OverlapEvents ==
    {Event(PornHost, 420, Num(Noon(1))),
     Event(StakeHost, 60, Num(Noon(5))),
     Event(StakeHost, 60, Num(Noon(12)))}

LaterWeekEnds == {Num(10), Num(17)}

NextOverlap ==
    \/ SessionStart("u1", "s1", 0)
    \/ \E ev \in OverlapEvents :
          /\ <<"u1", dayKey(ev.ts.n)>> \notin DOMAIN counters
          /\ Track("u1", "s1", <<ev>>)
          /\ StoredMinutes(counters') <= MaxOverlapMinutes
    \/ /\ "u1" \notin DOMAIN weeklyRolloversCents
       /\ SettleWeek("u1", Num(3), 0)
       /\ Len(pending') <= MaxOverlap
    \/ \E w \in LaterWeekEnds : SettleWeek("u1", w, 0) /\ Len(pending') <= MaxOverlap
    \/ \E i \in 1..Len(pending) :
          ProcessorSucceeds(i) /\ Cardinality(DOMAIN charges') <= MaxCharges
    \/ \E i \in 1..Len(pending) : ProcessorFails(i)

SpecOverlap == InitUsage /\ [][NextOverlap]_vars

\* the PaymentIntents of a user that applied a carried rollover
\* (metadata cents_rollover_applied)
ChargesWithRollover(u) ==
    {k \in DOMAIN charges : charges[k].userId = u /\ charges[k].rollover > 0}

\* C26: when settles of one user overlap (one starts while another waits
\* for the processor), the carried rollover is included in at most one
\* successful charge.
C26_RolloverChargedOnce ==
    \A u \in Users : Cardinality(ChargesWithRollover(u)) <= 1

(***************************************************************************)
(* Streak specification (SpecStreak): one user under the default rules     *)
(* over four days.  A porn minute is free (a clean day), a gambling minute *)
(* costs 50 cents (a billable day).  A tick carries no ts (the server's    *)
(* clock is used) or the ts of a client whose clock runs 12 hours ahead.   *)
(***************************************************************************)
StreakInstants == {Noon(d) : d \in 6..8}

ClientAheadMs == 12 * 60 * MsPerMinute

StreakEvents(clock) ==
    {Event(PornHost, 60, Undefined),
     Event(StakeHost, 60, Undefined),
     Event(PornHost, 60, Num(clock + ClientAheadMs))}

NextStreak ==
    \/ SessionStart("u1", "s1", 0)
    \/ \E ev \in StreakEvents(now) :
          Track("u1", "s1", <<ev>>) /\ StoredMinutes(counters') <= MaxStreakMinutes
    \/ Dashboard("u1", 0)
    \/ \E t \in StreakInstants : AdvanceClock(t)

SpecStreak == InitUsage /\ [][NextStreak]_vars

\* billable cents of a stored day under the default rules
DefaultDayCents(u, d) ==
    Max(0, counters[<<u, d>>].byCategory["porn"].minutes - DefaultGracePorn) * 5
    + counters[<<u, d>>].byCategory["gambling"].minutes * 50

\* the days counted backwards from day d while each has a stored bucket
\* and no billable cents
RECURSIVE CleanDaysBack(_, _)
CleanDaysBack(u, d) ==
    IF <<u, d>> \in DOMAIN counters /\ DefaultDayCents(u, d) = 0
    THEN 1 + CleanDaysBack(u, d - 1)
    ELSE 0

\* C27: currentStreakDays is the number of consecutive calendar days up to
\* and including today that each have a stored bucket and zero billable
\* cents after grace; a day without a bucket ends the run.
C27_StreakCountsBackFromToday ==
    (response.op = "dashboard" /\ response.status = 200)
        => response.body.streak.days
             = CleanDaysBack(response.userId, dayKey(response.at))

(***************************************************************************)
(* The extension's service worker (specification SpecExt)                  *)
(* One browser in time zone UTC around the local midnight that starts      *)
(* 1970-01-07.  The wall clock moves in seconds; the user opens and leaves *)
(* a flagged porn page and answers the modal; the vb_tick alarm fires      *)
(* every 0.1 minute as chrome.alarms.create asks (an unpacked extension,   *)
(* the installation the README describes, gets the period it asks for).    *)
(* The browser is not idle and the backend is reachable.                   *)
(***************************************************************************)
DEBOUNCE_SECONDS == 5
AlarmPeriodMs == 6000            \* periodInMinutes: 0.1
ExtUser == "u1"
ExtMidnight == 6 * MsPerDay
ExtStart == ExtMidnight - 14000
ExtGraces == {0, 1}              \* minutes a day the user set on the options page

\* todayLocalISO() in time zone UTC
todayLocalISO(clock) == dayKey(clock)

\* initCounters: the counters of another day are replaced by zeros
initCounters(cs, today) ==
    IF cs.date # today
    THEN [date |-> today, porn |-> NoCounts, gambling |-> NoCounts]
    ELSE cs

\* ensureSession keeps one session id per local day
ExtSessionId(today) == <<"session", today>>

\* the event of syncMinuteToBackend: { url, seconds: 60, category }
MinuteEvent(url, category) ==
    [domain |-> << >>, url |-> url, category |-> category, seconds |-> 60,
     ts |-> Undefined]

\* syncMinuteToBackend as the server sees it: POST /api/session/start, then
\* POST /api/track with the one event
syncMinuteToBackend(url, category) ==
    LET sid == ExtSessionId(todayLocalISO(now))
        events == <<MinuteEvent(url, category)>>
        r == ApplyEvents([cs |-> counters, used |-> usedSeconds, accepted |-> 0,
                          thrown |-> FALSE],
                         ExtUser, events, 1, now)
        cs2 == ensureCounterBucket(r.cs, ExtUser, now)
    IN /\ sessions' = MapSet(sessions, sid,
                             [userId |-> ExtUser, tzOffsetMinutes |-> 0])
       /\ usedSeconds' = r.used
       /\ counters' = cs2
       /\ response' = [op |-> "track", status |-> 200, userId |-> ExtUser,
                       call |-> [events |-> events],
                       accepted |-> r.accepted, day |-> dayKey(now),
                       byCategory |-> cs2[keyUserDay(ExtUser, now)].byCategory]

\* a second passes; the alarm fires before the clock passes its time
ExtSecond ==
    /\ now + 1000 <= ext.alarmAt
    /\ now + 1000 <= ExtStart + MaxExtSeconds * 1000
    /\ now' = now + 1000
    /\ UNCHANGED <<stripe, consents, sessions, counters, weeklyRolloversCents,
                   pending, charges, response, usedSeconds, carried, ext>>

\* refreshActive when the foreground tab shows a flagged page that was not
\* the active one
ExtVisit(cat) ==
    /\ ext.active.category = ""
    /\ ext' = [ext EXCEPT !.active = [category |-> cat, sinceTs |-> now],
                          !.modal = "",
                          !.visitSent = 0]
    /\ UNCHANGED <<now, stripe, consents, sessions, counters, weeklyRolloversCents,
                   pending, charges, response, usedSeconds, carried>>

\* refreshActive when the foreground tab shows no flagged page (the user
\* switched tabs, or pressed Stop & Leave)
ExtLeave ==
    /\ ext.active.category # ""
    /\ ext' = [ext EXCEPT !.active = [category |-> "", sinceTs |-> 0],
                          !.modal = ""]
    /\ UNCHANGED <<now, stripe, consents, sessions, counters, weeklyRolloversCents,
                   pending, charges, response, usedSeconds, carried>>

\* the state of the extension after a minute of kind `kind` was counted
CountedMinute(cs, cat, kind) ==
    [ext EXCEPT !.alarmAt = now + AlarmPeriodMs,
                !.counters = IF kind = "free"
                             THEN [cs EXCEPT ![cat].freeMin = @ + 1]
                             ELSE [cs EXCEPT ![cat].paidMin = @ + 1],
                !.visitSent = @ + 60,
                !.ticks = @ + 1,
                !.lastTick = kind]

\* the vb_tick alarm handler
ExtAlarm ==
    LET cs == initCounters(ext.counters, todayLocalISO(now))
        cat == ext.active.category
        secondsActive == (now - ext.active.sinceTs) \div 1000
    IN /\ now = ext.alarmAt
       /\ IF cat = "" \/ secondsActive < DEBOUNCE_SECONDS
          THEN /\ ext' = [ext EXCEPT !.alarmAt = now + AlarmPeriodMs]
               /\ UNCHANGED <<sessions, counters, response, usedSeconds>>
          ELSE IF cs[cat].freeMin < ext.grace[cat]
          THEN /\ ext' = CountedMinute(cs, cat, "free")
               /\ syncMinuteToBackend(PornHost, cat)
          ELSE IF ~ext.paidActive[cat]
          THEN /\ ext' = [ext EXCEPT !.alarmAt = now + AlarmPeriodMs,
                                     !.modal = cat]
               /\ UNCHANGED <<sessions, counters, response, usedSeconds>>
          ELSE /\ ext' = CountedMinute(cs, cat, "paid")
               /\ syncMinuteToBackend(PornHost, cat)
       /\ UNCHANGED <<now, stripe, consents, weeklyRolloversCents, pending, charges,
                      carried>>

\* the VB_CONTINUE_PAID message of the modal (the /api/charge it then posts
\* to is no route of this server)
ExtContinuePaid ==
    /\ ext.modal # ""
    /\ ext' = [ext EXCEPT !.paidActive[ext.modal] = TRUE,
                          !.modal = "",
                          !.continuedDay[ext.modal] = todayLocalISO(now)]
    /\ UNCHANGED <<now, stripe, consents, sessions, counters, weeklyRolloversCents,
                   pending, charges, response, usedSeconds, carried>>

InitExt ==
    /\ now = ExtStart
    /\ stripe = TRUE
    /\ consents = << >>
    /\ sessions = << >>
    /\ counters = << >>
    /\ weeklyRolloversCents = << >>
    /\ pending = << >>
    /\ charges = << >>
    /\ response = InitResponse
    /\ usedSeconds = << >>
    /\ carried = << >>
    /\ \E g \in ExtGraces :
          ext = [ExtInstalled EXCEPT !.grace = [porn |-> g, gambling |-> g],
                                     !.alarmAt = ExtStart + AlarmPeriodMs]

NextExt ==
    \/ ExtSecond
    \/ ExtVisit("porn")
    \/ ExtLeave
    \/ ExtAlarm
    \/ ExtContinuePaid

SpecExt == InitExt /\ [][NextExt]_vars

\* C28: over an interval of continuous foreground time on a flagged site
\* the seconds sent to /api/track (60 per counted minute) never exceed the
\* foreground seconds that elapsed.
C28_SentAtMostElapsed ==
    ext.active.category # ""
        => ext.visitSent <= (now - ext.active.sinceTs) \div 1000

\* C29: on every local day, once a category's free minutes have reached the
\* day's grace, no further minute of the category is counted or sent until
\* the user has answered the modal with Continue Paid: a minute counted
\* past the grace follows a Continue Paid given on that local day.
C29_PaidMinuteFollowsContinueToday ==
    [][(ext'.ticks # ext.ticks /\ ext'.lastTick = "paid")
          => ext'.continuedDay[ext'.active.category] = todayLocalISO(now')]_vars

(***************************************************************************)
(* Time zones (specification SpecZone): gambling ticks stamped two hours   *)
(* before and after the UTC midnights that open and close the week of      *)
(* Monday 1970-01-05, one instant per UTC day, and previews of that week   *)
(* for three offsets.                                                      *)
(***************************************************************************)
ZoneTickHour == [d \in {3, 4, 10, 11} |-> IF d \in {3, 10} THEN 22 ELSE 2]

\* the instant of the ticks stored under UTC day d
ZoneInstant(d) == DayStart(d) + ZoneTickHour[d] * 60 * MsPerMinute

ZoneOffsets == {0 - 300, 0, 300}

NextZone ==
    \/ SessionStart("u1", "s1", 0)
    \/ \E d \in DOMAIN ZoneTickHour :
          /\ Track("u1", "s1", <<Event(StakeHost, 60, Num(ZoneInstant(d)))>>)
          /\ StoredMinutes(counters') <= MaxZoneMinutes
    \/ \E tz \in ZoneOffsets : Preview("u1", Num(10), tz)

SpecZone == InitUsage /\ [][NextZone]_vars

\* gambling cents of the ticks whose timestamp lies in the window
CentsStampedInWindow(u, wb) ==
    SumOver(DOMAIN ZoneTickHour,
            [d \in DOMAIN ZoneTickHour |->
               IF ZoneInstant(d) >= wb.weekStartUTC /\ ZoneInstant(d) <= wb.weekEndUTC
               THEN (UsedOf(usedSeconds, <<u, d, "gambling">>) \div 60) * 50
               ELSE 0])

\* C30: for every tzOffsetMinutes a tick contributes to the aggregate of a
\* week window exactly when its timestamp lies within [weekStartUTC,
\* weekEndUTC] of that window.
C30_TickCountsInTheWeekOfItsTimestamp ==
    (response.op = "preview" /\ response.status = 200)
        => response.body.totalCents
             = CentsStampedInWindow(response.userId,
                                    getWeekBounds(response.query.weekEnd,
                                                  response.query.tzOffsetMinutes,
                                                  response.at))

\* C31: a user's rollover goes to 0 only as the result of a successful
\* charge whose amount included the rollover value being cleared: an amount
\* carried by another settle while a charge was in flight is never erased
\* without having been charged.
C31_RolloverClearedOnlyWhenCharged ==
    [][\A u \in Users :
          (/\ RolloverOf(u) > 0
           /\ u \in DOMAIN weeklyRolloversCents'
           /\ weeklyRolloversCents'[u] = 0)
          => (/\ response'.op = "settle"
              /\ response'.status = 200
              /\ response'.userId = u
              /\ response'.body.settlement.charged = response'.call.grandTotal
              /\ response'.call.rollover = RolloverOf(u))]_vars

(***************************************************************************)
(* Events that carry their own category (specification SpecTag): ticks of  *)
(* 30 and 60 seconds that leave the category to the server, name a         *)
(* built-in category, or name one the server does not know.                *)
(***************************************************************************)
ExampleHost == <<"example", ".", "com">>

TaggedEvent(url, category, seconds) ==
    [domain |-> << >>, url |-> url, category |-> category, seconds |-> seconds,
     ts |-> Undefined]

TagEvents ==
    {TaggedEvent(PornHost, "", s) : s \in {30, 60}}
    \cup {TaggedEvent(StakeHost, "gambling", s) : s \in {30, 60}}
    \cup {TaggedEvent(ExampleHost, "crypto", s) : s \in {30, 60}}

NextTag ==
    \/ SessionStart("u1", "s1", 0)
    \/ \E ev \in TagEvents :
          Track("u1", "s1", <<ev>>) /\ StoredMinutes(counters') <= MaxTagMinutes
    \/ CountersToday("u1")

SpecTag == InitUsage /\ [][NextTag]_vars

\* C33: every key of a bucket's byCategory map is one of the closed
\* enumeration {porn, gambling}, after any sequence of tick ingestions,
\* including events that carry their own category field.
C33_CategoriesAreBuiltin ==
    \A k \in DOMAIN counters : DOMAIN counters[k].byCategory \subseteq BuiltinCategories

\* the stored days of a user after day d that have billable cents
BillableDaysAfter(u, d) ==
    {e \in listUserDays(u) : e > d /\ DefaultDayCents(u, e) > 0}

\* C34: whenever lastStreak is reported and a day with billable cents
\* exists in the store after lastStreak's end, lastBreakDay is the earliest
\* such day.
C34_BreakDayIsFirstBillableAfterRun ==
    (/\ response.op = "dashboard" /\ response.status = 200
     /\ response.body.streak.lastStreak.t = "obj"
     /\ BillableDaysAfter(response.userId, response.body.streak.lastStreak.v.end) # {})
        => \E b \in BillableDaysAfter(response.userId,
                                      response.body.streak.lastStreak.v.end) :
              /\ response.body.streak.lastBreakDay = Num(b)
              /\ \A e \in BillableDaysAfter(response.userId,
                                            response.body.streak.lastStreak.v.end) :
                    b <= e

\* C35: in every reachable state each user's rollover is an integer with
\* 0 <= rollover < 50, and every amount sent to the payment processor by
\* settle (the calls waiting for it and the charges it holds) is at least
\* 50 cents.
C35_RolloverBelowMinimumChargesAtLeast ==
    /\ \A u \in DOMAIN weeklyRolloversCents :
          weeklyRolloversCents[u] \in 0..(STRIPE_MIN_CENTS - 1)
    /\ \A i \in 1..Len(pending) : pending[i].grandTotal >= STRIPE_MIN_CENTS
    /\ \A k \in DOMAIN charges : charges[k].amount >= STRIPE_MIN_CENTS

\* 30 cents are carried while two settles that read them wait for the
\* processor with 80 cents each
C35_Witness ==
    /\ RolloverOf("u1") = 30
    /\ Len(pending) = 2
    /\ \A i \in 1..Len(pending) : pending[i].grandTotal = 80

(***************************************************************************)
(* The day keys a week window selects                                      *)
(***************************************************************************)
\* the day keys tried against a window: every date a bucket of the weeks
\* asked for could carry
CandidateDays == (0 - 3)..21

\* the day keys collectWeeklyBillableMinutes does not skip for a window
DaysInWindow(wb, tzOffsetMinutes) ==
    {d \in CandidateDays :
        isDayInRange(d, wb.weekStartUTC, wb.weekEndUTC, tzOffsetMinutes)}

\* C36: for a fixed tzOffsetMinutes, exactly seven day keys satisfy
\* isDayInRange for a window of getWeekBounds, and they are the consecutive
\* dates Monday through Sunday of the week of the window's weekStartStr; the
\* windows of two different weeks at that offset share no day key.
C36_SevenDaysOfTheStartStrWeek ==
    WeekAnswered =>
      LET tz == response.call.tzOffsetMinutes
          days == DaysInWindow(response.body, tz)
      IN /\ Cardinality(days) = 7
         /\ GetDay(DayStart(response.body.weekStartStr)) = 1
         /\ days = {response.body.weekStartStr + i : i \in 0..6}
         /\ \A w \in WeekEndStrs :
               LET other == getWeekBounds(w, tz, response.at)
               IN other.weekStartUTC # response.body.weekStartUTC
                    => DaysInWindow(other, tz) \cap days = {}

(***************************************************************************)
(* Per-day figures against the weekly total (specification SpecDaily):     *)
(* one user consents, tracks built-in and client-tagged minutes on two     *)
(* days of one week and reads the dashboard.                               *)
(***************************************************************************)
DailyInstants == {Noon(6)}

DailyEvents ==
    {TaggedEvent(PornHost, "", 120),
     TaggedEvent(StakeHost, "gambling", 60),
     TaggedEvent(ExampleHost, "crypto", 60)}

\* what POST /api/consent stores: the options page's built-in rules, and a
\* body that also switches on and prices a category of the client's own
DailyConsents ==
    {Snapshot(Obj([porn |-> 1, gambling |-> 0]),
              Obj([porn |-> 250, gambling |-> 500]),
              Obj([porn |-> TRUE, gambling |-> FALSE])),
     Snapshot(Obj([porn |-> 0, gambling |-> 0, crypto |-> 0]),
              Obj([porn |-> 50, gambling |-> 500, crypto |-> 100]),
              Obj([porn |-> TRUE, gambling |-> TRUE, crypto |-> TRUE]))}

NextDaily ==
    \/ SessionStart("u1", "s1", 0)
    \/ \E c \in DailyConsents : Consent("u1", c)
    \/ \E ev \in DailyEvents :
          Track("u1", "s1", <<ev>>) /\ StoredMinutes(counters') <= MaxDailyMinutes
    \/ \E t \in DailyInstants : AdvanceClock(t)
    \/ Dashboard("u1", 0)

SpecDaily == InitUsage /\ [][NextDaily]_vars

\* the sum of computeDailyBillable's billableCents over the stored day keys
\* inside the window of the current week
DailyCentsInWeek(userId, tzOffsetMinutes) ==
    LET wb == getWeekBounds(Undefined, tzOffsetMinutes, now)
        keys == KeysInWeek(userId, wb.weekStartUTC, wb.weekEndUTC, tzOffsetMinutes)
    IN SumOver(keys, [k \in keys |-> computeDailyBillable(userId, k[2]).billableCents])

PairUsers == {"u1", "u2"}
PairInstants == {Noon(6)}

\* ensureSession up to its fetch of /api/session/start
EnsureSessionPosts(u) ==
    LET sid == ExtSessionId(todayLocalISO(now))
    IN /\ u \notin DOMAIN ext.started
       /\ SessionStartHandler(u, sid, 0)
       /\ ext' = [ext EXCEPT !.started = MapSet(@, u, sid)]

\* syncMinuteToBackend after ensureSession returned: the fetch of /api/track
SyncPostsTrack(u) ==
    /\ u \in DOMAIN ext.started
    /\ TrackHandler(u, ext.started[u], <<MinuteEvent(PornHost, "porn")>>)
    /\ StoredMinutes(counters') <= MaxPairMinutes
    /\ ext' = [ext EXCEPT !.started = [v \in DOMAIN @ \ {u} |-> @[v]]]

NextPair ==
    \/ \E u \in PairUsers : EnsureSessionPosts(u)
    \/ \E u \in PairUsers : SyncPostsTrack(u)
    \/ \E t \in PairInstants : AdvanceClock(t)

SpecPair == InitUsage /\ [][NextPair]_vars

\* C38: when two extension users are active on the same local day and
\* their requests interleave at the backend, every /api/track request a
\* user sends after that user's own /api/session/start is accepted: the
\* session id it names is still bound to that user.
C38_TrackAfterOwnStartAccepted ==
    [][\A u \in PairUsers :
          (u \in DOMAIN ext.started /\ u \notin DOMAIN ext'.started)
             => /\ sessions[ext.started[u]].userId = u
                /\ response'.op = "track"
                /\ response'.status = 200]_vars

(***************************************************************************)
(* Overlapping alarm handlers (specification SpecAlarms): the vb_tick      *)
(* handler is split at its awaits.  ext.handlers holds one frame per       *)
(* handler under way: the storage it read with get(null) and, once it has  *)
(* counted, the category and kind of the minute it is about to send.       *)
(***************************************************************************)
AlarmsStart == Noon(5)

\* the alarm period passes
AlarmPeriodPasses ==
    /\ now < ext.alarmAt
    /\ ext.alarmAt <= AlarmsStart + MaxAlarmPeriods * AlarmPeriodMs
    /\ now' = ext.alarmAt
    /\ UNCHANGED <<stripe, consents, sessions, counters, weeklyRolloversCents,
                   pending, charges, response, usedSeconds, carried, ext>>

\* the alarm fires: the handler runs up to the answer of get(null) and
\* initCounters, and waits for chrome.idle.queryState
AlarmStarts ==
    /\ now = ext.alarmAt
    /\ Len(ext.handlers) < MaxHandlers
    /\ ext' = [ext EXCEPT
                 !.alarmAt = now + AlarmPeriodMs,
                 !.handlers =
                     Append(@, [pos |-> "read",
                                counters |-> initCounters(ext.counters,
                                                          todayLocalISO(now)),
                                grace |-> ext.grace,
                                paidActive |-> ext.paidActive,
                                cat |-> "", kind |-> ""])]
    /\ UNCHANGED <<now, stripe, consents, sessions, counters, weeklyRolloversCents,
                   pending, charges, response, usedSeconds, carried>>

\* handler i after the idle state was answered: the checks, the count in
\* its own copy of the storage and set({ counters: st.counters })
HandlerCounts(i) ==
    LET h == ext.handlers[i]
        cat == ext.active.category
        secondsActive == (now - ext.active.sinceTs) \div 1000
        counted(kind) ==
            IF kind = "free" THEN [h.counters EXCEPT ![cat].freeMin = @ + 1]
                             ELSE [h.counters EXCEPT ![cat].paidMin = @ + 1]
        goesOn(kind) ==
            [ext EXCEPT !.counters = counted(kind),
                        !.handlers[i] = [h EXCEPT !.pos = "counted",
                                                  !.counters = counted(kind),
                                                  !.cat = cat, !.kind = kind]]
    IN /\ h.pos = "read"
       /\ IF cat = "" \/ secondsActive < DEBOUNCE_SECONDS
          THEN ext' = [ext EXCEPT !.handlers = RemoveAt(@, i)]
          ELSE IF h.counters[cat].freeMin < h.grace[cat]
          THEN ext' = goesOn("free")
          ELSE IF ~h.paidActive[cat]
          THEN ext' = [ext EXCEPT !.handlers = RemoveAt(@, i), !.modal = cat]
          ELSE ext' = goesOn("paid")
       /\ UNCHANGED <<now, stripe, consents, sessions, counters, weeklyRolloversCents,
                      pending, charges, response, usedSeconds, carried>>

\* handler i after the storage write: syncMinuteToBackend sends the tick
HandlerSyncs(i) ==
    LET h == ext.handlers[i]
    IN /\ h.pos = "counted"
       /\ syncMinuteToBackend(PornHost, h.cat)
       /\ ext' = [ext EXCEPT !.handlers = RemoveAt(@, i),
                             !.visitSent = @ + 60,
                             !.ticks = @ + 1,
                             !.lastTick = h.kind]
       /\ UNCHANGED <<now, stripe, consents, weeklyRolloversCents, pending, charges,
                      carried>>

InitAlarms ==
    /\ now = AlarmsStart
    /\ stripe = TRUE
    /\ consents = << >>
    /\ sessions = << >>
    /\ counters = << >>
    /\ weeklyRolloversCents = << >>
    /\ pending = << >>
    /\ charges = << >>
    /\ response = InitResponse
    /\ usedSeconds = << >>
    /\ carried = << >>
    /\ \E g \in ExtGraces :
          ext = [ExtInstalled EXCEPT !.grace = [porn |-> g, gambling |-> g],
                                     !.alarmAt = AlarmsStart + AlarmPeriodMs]

NextAlarms ==
    \/ AlarmPeriodPasses
    \/ ExtVisit("porn")
    \/ ExtLeave
    \/ AlarmStarts
    \/ \E i \in 1..Len(ext.handlers) : HandlerCounts(i)
    \/ \E i \in 1..Len(ext.handlers) : HandlerSyncs(i)
    \/ ExtContinuePaid

SpecAlarms == InitAlarms /\ [][NextAlarms]_vars

\* C39: for each category and local day, the number of 60-second tick
\* events the extension has sent to /api/track equals freeMin + paidMin in
\* its stored counters once no handler is between its count and its send,
\* also when alarm handlers overlapped.  (The specification stays within
\* one local day and one category, so ext.ticks is that number.)
C39_SentEqualsCounted ==
    (/\ \A i \in 1..Len(ext.handlers) : ext.handlers[i].pos # "counted"
     /\ ext.counters.date = todayLocalISO(now))
       => ext.ticks = ext.counters.porn.freeMin + ext.counters.porn.paidMin

====
